---------------------------- MODULE Spec2Model ----------------------------
(***************************************************************************)
(* State-machine model of the Warmup productivity app's client-side        *)
(* stores:                                                                 *)
(*   - useTodos       (src/unnamed/part_001): the ordered to-do list       *)
(*   - useProductivity (src/src/store/useProductivity.ts): stats counters  *)
(*   - usePlaylists   (src/unnamed/part_002): the paginated importer       *)
(* and of useProductivity's Pomodoro countdown, the DSA sheet's store, the *)
(* playlist tracker page and the PomodoroTimer component.                  *)
(* Each store has its own specification (SpecTodo, SpecTodoRaw, ...); the  *)
(* variables of the other stores stay at their initial values there.       *)
(***************************************************************************)
EXTENDS Integers, Sequences, FiniteSets, TLC

VARIABLES
    todos,      \* useTodos state: TodoItem[] (part_001:17)
    nextId,     \* the next value nanoid() returns (ids are fresh)
    now,        \* Date.now(), in milliseconds
    last,       \* history: the step that led here (name, id argument, repeated?)
    stats,      \* useProductivity state: ProductivityStats (useProductivity.ts:33)
    today,      \* the calendar day of Date.now(), counted from 2025-01-01
    playlists,  \* usePlaylists state: Record<string, Playlist> (part_002:28)
    order,      \* usePlaylists state: the playlist ordering (part_002:29)
    apiKey,     \* import.meta.env.VITE_YT_API_KEY ("" when unset)
    imports,    \* the addPlaylistByUrl / refetchPlaylist calls in flight
    lastImp,    \* history: the importer step that led here
    timer,      \* useProductivity state: currentPomodoro, pomodoroSessions,
                \* timeLeft, isBreak, sessionCount, timerInterval
    intervals,  \* the handles of the setInterval timers that are live
    focusCompleted, \* history: how many focus sessions have reached zero
    dsa,        \* the DSAStore singleton (goals-manager.tsx:280): whether it
                \* exists, its questions, how often listeners were notified
    storage,    \* localStorage's entry 'dsa-sheet-questions' (the text stored)
    lastDsa,    \* history: the DSAStore step that led here
    tracker,    \* PlaylistTrackerPage (playlist-tracker-page.tsx:7):
                \* refreshingRef, the progress snapshot of the refresh that is
                \* awaiting refetchPlaylist, and the restore timeouts pending
    panel       \* PomodoroTimer (part_004:24): timerState, currentSession,
                \* timeLeft and totalTime, the auto-break timeouts pending,
                \* and as history the step that led here

todoVars == <<todos, nextId, now, last>>
statsVars == <<stats, today>>
playlistVars == <<playlists, order, apiKey, imports, lastImp>>
timerVars == <<timer, intervals, focusCompleted>>
dsaVars == <<dsa, storage, lastDsa>>
vars == <<todos, nextId, now, last, stats, today,
          playlists, order, apiKey, imports, lastImp, timer, intervals,
          focusCompleted, dsa, storage, lastDsa, tracker, panel>>

\* what a call of one store leaves alone: the state of the other stores
\* (notProductivity: what a statistics call leaves alone, the countdown too)
notTodos ==
    <<stats, today, playlists, order, apiKey, imports, lastImp, timerVars,
      dsaVars, tracker, panel>>
notProductivity ==
    <<todos, nextId, playlists, order, apiKey, imports, lastImp, timerVars,
      dsaVars, tracker, panel>>
\* (the tracker page reacts to the playlist store: see NextRefresh)
notPlaylists ==
    <<todos, nextId, now, last, stats, today, timerVars, dsaVars, panel>>
notTimer ==
    <<todos, nextId, today, playlists, order, apiKey, imports, lastImp,
      dsaVars, tracker, panel>>
notDsa ==
    <<todos, nextId, last, stats, today, playlists, order, apiKey, imports,
      lastImp, timerVars, tracker, panel>>
notPanel ==
    <<todos, nextId, now, last, stats, today, playlistVars, timerVars,
      dsaVars, tracker>>

-----------------------------------------------------------------------------
(* Bounds *)

\* ids nanoid() hands out over a run: 1..MaxId (two are used by the seed list)
MaxId == 3
\* the clock runs over 0..MaxNow
MaxNow == 1
\* trackTaskCompletion is called at most MaxTracked times in a run
MaxTracked == 2
\* the calendar runs over the days 0..MaxDay
MaxDay == 1
\* the remote serves a playlist in at most MaxPages pages
MaxPages == 2
\* the most imports in flight at once in the interleaving specification
MaxImports == 2
\* pomodoroSessions holds at most MaxSessions sessions in a run
MaxSessions == 5
\* the clock moves in steps only during the first MaxElapse steps after the
\* page is loaded (it still runs to the end of a session after that)
MaxElapse == 3
\* no session is run out later than MaxMinutes minutes after the page is loaded
MaxMinutes == 8
\* the DSA sheet holds at most MaxQuestions questions
MaxQuestions == 2
\* at most MaxRefreshes restore callbacks of the tracker page are pending
MaxRefreshes == 2
\* the calendar of the long-run statistics runs over the days 0..MaxCalendarDay
MaxCalendarDay == 32

-----------------------------------------------------------------------------
(* Generic helpers *)

Min(a, b) == IF a < b THEN a ELSE b
Max(a, b) == IF a > b THEN a ELSE b

Range(s) == {s[i] : i \in DOMAIN s}

NoDup(s) == \A i, j \in DOMAIN s : i # j => s[i] # s[j]

\* s with the patch's fields written over it ({...s, ...patch})
Spread(s, patch) ==
    [f \in DOMAIN s \cup DOMAIN patch |->
        IF f \in DOMAIN patch THEN patch[f] ELSE s[f]]

\* the empty object {}
EmptyObj == [f \in {} |-> FALSE]

\* the label of one step: the name of the call, its id argument (0 when it
\* has none) and, for a toggle, whether the step before it was the same call
Call(op, a) ==
    [op |-> op, a |-> a, rep |-> (op = "toggle" /\ last.op = op /\ last.a = a)]

NoCall == [op |-> "none", a |-> 0, rep |-> FALSE]

-----------------------------------------------------------------------------
(* useTodos: the ordered item collection.  An item is modelled by the      *)
(* fields the operations read or compute: id, done and updatedAt.  title,  *)
(* notes, priority, due and createdAt are written by create and by         *)
(* update's patch only and are carried along unchanged by everything else. *)

\* An array slot holding JavaScript `undefined` (what reorder inserts when
\* splice(from, 1) removed nothing). Item ids start at 1, so id 0 marks it.
Undefined == [id |-> 0, done |-> FALSE, updatedAt |-> 0]

\* Array.prototype.splice's normalisation of its start argument
SpliceStart(len, start) ==
    IF start < 0 THEN Max(len + start, 0) ELSE Min(start, len)

\* the elements arr.splice(start, deleteCount, ...items) removes (0-based start)
SpliceRemoved(arr, start, deleteCount) ==
    LET a == SpliceStart(Len(arr), start)
        d == Min(Max(deleteCount, 0), Len(arr) - a)
    IN  SubSeq(arr, a + 1, a + d)

\* arr after arr.splice(start, deleteCount, ...items)
SpliceResult(arr, start, deleteCount, items) ==
    LET a == SpliceStart(Len(arr), start)
        d == Min(Max(deleteCount, 0), Len(arr) - a)
    IN  SubSeq(arr, 1, a) \o items \o SubSeq(arr, a + d + 1, Len(arr))

\* a callback reading t.id / t.done throws a TypeError on an undefined slot
Throws(s) == \E i \in DOMAIN s : s[i] = Undefined

\* the seed list of part_001:27-30
SeedTodos ==
    << [id |-> 1, done |-> FALSE, updatedAt |-> 0],
       [id |-> 2, done |-> FALSE, updatedAt |-> 0] >>

\* create: append a fresh item, not done, stamped with the clock
createTodos(s, id, t) ==
    Append(s, [id |-> id, done |-> FALSE, updatedAt |-> t])

\* a toggle that marks the item done instead of flipping it
toggleTodos_setDone(s, id, t) ==
    [i \in DOMAIN s |->
        IF s[i].id = id
        THEN [s[i] EXCEPT !.done = TRUE, !.updatedAt = t]
        ELSE s[i]]

\* a toggle that flips done and leaves updatedAt stale
toggleTodos_stale(s, id, t) ==
    [i \in DOMAIN s |->
        IF s[i].id = id THEN [s[i] EXCEPT !.done = ~s[i].done] ELSE s[i]]

\* toggle: flip done and refresh updatedAt of the items whose id matches
toggleTodos(s, id, t) ==
    IF Throws(s) THEN s
    ELSE [i \in DOMAIN s |->
            IF s[i].id = id
            THEN [s[i] EXCEPT !.done = ~s[i].done, !.updatedAt = t]
            ELSE s[i]]

\* update: shallow-merge the patch, then refresh updatedAt
updateTodos(s, id, patch, t) ==
    IF Throws(s) THEN s
    ELSE [i \in DOMAIN s |->
            IF s[i].id = id
            THEN [Spread(s[i], patch) EXCEPT !.updatedAt = t]
            ELSE s[i]]

\* a remove that drops the item at the head of the list whatever its id
removeTodos_head(s, id) ==
    IF \E i \in DOMAIN s : s[i].id = id THEN Tail(s) ELSE s

\* remove: filter out the id
removeTodos(s, id) ==
    IF Throws(s) THEN s ELSE SelectSeq(s, LAMBDA t : t.id # id)

\* a reorder that inserts the element at `to` without taking it out at `from`
reorderTodos_copy(s, from, to) ==
    LET removed == SpliceRemoved(s, from, 1)
        m       == IF Len(removed) > 0 THEN removed[1] ELSE Undefined
    IN  SpliceResult(s, to, 0, <<m>>)

\* a reorder that exchanges the elements at `from` and `to`
reorderTodos_swap(s, from, to) ==
    IF from + 1 \in DOMAIN s /\ to + 1 \in DOMAIN s
    THEN [s EXCEPT ![from + 1] = s[to + 1], ![to + 1] = s[from + 1]]
    ELSE s

\* reorder: splice one element out at `from`, splice it (or undefined) in at `to`
reorderTodos(s, from, to) ==
    LET removed == SpliceRemoved(s, from, 1)
        copy    == SpliceResult(s, from, 1, <<>>)
        m       == IF Len(removed) > 0 THEN removed[1] ELSE Undefined
    IN  SpliceResult(copy, to, 0, <<m>>)

\* clearCompleted: filter out the done items
clearCompletedTodos(s) ==
    IF Throws(s) THEN s ELSE SelectSeq(s, LAMBDA t : ~t.done)

\* Array.prototype.findIndex(t => t.id === id): 0-based, -1 when absent
findIndex(s, id) ==
    IF \E i \in DOMAIN s : s[i].id = id
    THEN (CHOOSE i \in DOMAIN s :
            s[i].id = id /\ \A j \in DOMAIN s : s[j].id = id => i <= j) - 1
    ELSE -1

-----------------------------------------------------------------------------
(* useProductivity: the task-completion statistics *)

\* lastCompletedDate before any completion (undefined)
NoDate == -1

\* the Gregorian calendar of 2025, day 0 being Wednesday 2025-01-01
MonthLengths == <<31, 28, 31, 30, 31, 30, 31, 31, 30, 31, 30, 31>>

RECURSIVE DayOfMonthFrom(_, _)
DayOfMonthFrom(d, m) ==
    IF m >= 12 \/ d < MonthLengths[m] THEN d + 1
    ELSE DayOfMonthFrom(d - MonthLengths[m], m + 1)

\* Date.prototype.getDate(): 1..31
getDate(d) == DayOfMonthFrom(d % 365, 1)
\* Date.prototype.getDay(): 0 = Sunday .. 6 = Saturday
getDay(d) == (d + 3) % 7
\* Date.prototype.getFullYear()
getFullYear(d) == 2025 + (d \div 365)

\* Math.ceil(x / 7) on an integer x
CeilDiv7(x) == -((-x) \div 7)

\* getDateKey: the ISO date of the day, one key per day
getDateKey(d) == d

\* getWeekKey: `${year}-W${week}`, as the pair <<year, week>>
getWeekKey(d) == <<getFullYear(d), CeilDiv7(getDate(d) - getDay(d) + 1)>>

\* obj[key] || 0 on a counter map
CountAt(m, k) == IF k \in DOMAIN m THEN m[k] ELSE 0

\* { ...obj, [key]: value }
WithKey(m, k, v) == [x \in DOMAIN m \cup {k} |-> IF x = k THEN v ELSE m[x]]

InitStats ==
    [ totalTasksCompleted |-> 0, totalPomodoroSessions |-> 0,
      totalFocusTime |-> 0, currentStreak |-> 0, longestStreak |-> 0,
      lastCompletedDate |-> NoDate,
      weeklyStats |-> EmptyObj, dailyStats |-> EmptyObj ]

\* an updateStreak that counts a day after a gap as the next day of the run
updateStreakStats_noRestart(st, d) ==
    LET todayTasks == CountAt(st.dailyStats, getDateKey(d))
        newStreak  ==
            IF todayTasks > 0 /\ st.lastCompletedDate # getDateKey(d)
            THEN st.currentStreak + 1 ELSE st.currentStreak
    IN  [st EXCEPT
           !.currentStreak = newStreak,
           !.longestStreak = Max(st.longestStreak, newStreak),
           !.lastCompletedDate =
               IF todayTasks > 0 THEN getDateKey(d) ELSE st.lastCompletedDate]

\* updateStreak: the stats it writes, read on day d
updateStreakStats(st, d) ==
    LET yesterday  == getDateKey(d - 1)
        todayTasks == CountAt(st.dailyStats, getDateKey(d))
        newStreak  ==
            IF todayTasks > 0
            THEN IF st.lastCompletedDate = yesterday
                    \/ st.lastCompletedDate = NoDate
                 THEN st.currentStreak + 1
                 ELSE IF st.lastCompletedDate # getDateKey(d) THEN 1
                      ELSE st.currentStreak
            ELSE st.currentStreak
    IN  [st EXCEPT
           !.currentStreak = newStreak,
           !.longestStreak = Max(st.longestStreak, newStreak),
           !.lastCompletedDate =
               IF todayTasks > 0 THEN getDateKey(d) ELSE st.lastCompletedDate]

\* trackTaskCompletion: bump the three counters, then updateStreak
trackTaskCompletionStats(st, d) ==
    LET day  == getDateKey(d)
        week == getWeekKey(d)
        bumped ==
          [st EXCEPT
             !.totalTasksCompleted = st.totalTasksCompleted + 1,
             !.dailyStats = WithKey(st.dailyStats, day,
                                    CountAt(st.dailyStats, day) + 1),
             !.weeklyStats = WithKey(st.weeklyStats, week,
                                     CountAt(st.weeklyStats, week) + 1)]
    IN  updateStreakStats(bumped, d)

trackTaskCompletion ==
    /\ stats.totalTasksCompleted < MaxTracked
    /\ stats' = trackTaskCompletionStats(stats, today)
    /\ last' = Call("trackTaskCompletion", 0)
    /\ UNCHANGED <<today, now>>
    /\ UNCHANGED notProductivity

updateStreak ==
    /\ stats' = updateStreakStats(stats, today)
    /\ last' = Call("updateStreak", 0)
    /\ UNCHANGED <<today, now>>
    /\ UNCHANGED notProductivity

\* the store is next used n days later
DaysPass(n) ==
    /\ today + n <= MaxCalendarDay
    /\ today' = today + n
    /\ last' = Call("DaysPass", n)
    /\ UNCHANGED <<stats, now>>
    /\ UNCHANGED notProductivity

\* midnight passes
NextDay ==
    /\ today < MaxDay
    /\ today' = today + 1
    /\ last' = Call("NextDay", 0)
    /\ UNCHANGED <<stats, now>>
    /\ UNCHANGED notProductivity

InitProductivity ==
    /\ stats = InitStats
    /\ today = 0

-----------------------------------------------------------------------------
(* useProductivity: the Pomodoro countdown.  A session is modelled by       *)
(* startTime, endTime, duration and completed (id and taskId are never      *)
(* read); an entry of pomodoroSessions by duration and completed (its times *)
(* are never read).  Times are Date.now() readings in milliseconds, counted *)
(* from one second before the page is loaded; one handler reads one value.  *)

\* Date.now() when the page is loaded
PageLoad == 1000
\* endTime of a session that is not paused (undefined; tested by truthiness)
NoEndTime == 0
\* timerInterval when no timer is recorded (undefined; tested by truthiness)
NoInterval == 0
\* currentPomodoro when there is no current session (undefined)
NoPomodoro ==
    [startTime |-> -1, endTime |-> NoEndTime, duration |-> 0, completed |-> FALSE]

\* the durations (minutes) a caller starts a session with
Durations == {0, 1}
\* the time (milliseconds) that passes between two events
Elapses == {10000}

InitTimer ==
    [ currentPomodoro |-> NoPomodoro, pomodoroSessions |-> <<>>, timeLeft |-> 0,
      isBreak |-> FALSE, sessionCount |-> 0, timerInterval |-> NoInterval ]

\* the store as one handler sees it: the countdown state t, the live
\* setInterval timers and the statistics st
Store == [t |-> timer, live |-> intervals, st |-> stats]

\* the handle setInterval returns: one no live timer has
NewHandle(live) == CHOOSE h \in 1..(Cardinality(live) + 1) :
                       h \notin live /\ \A g \in 1..(h - 1) : g \in live

\* setInterval(...) followed by setTimerInterval(interval)
setTimerIntervalW(w) ==
    LET h == NewHandle(w.live) IN
    [w EXCEPT !.live = @ \cup {h}, !.t.timerInterval = h]

\* a clearTimerInterval that forgets the handle and leaves the timer running
clearTimerIntervalW_leak(w) == [w EXCEPT !.t.timerInterval = NoInterval]

clearTimerIntervalW(w) ==
    IF w.t.timerInterval # NoInterval
    THEN [w EXCEPT !.live = @ \ {w.t.timerInterval},
                   !.t.timerInterval = NoInterval]
    ELSE w

\* a completion that leaves the statistics as they were
completePomodoroW_noStats(w) ==
    LET cur == w.t.currentPomodoro IN
    IF cur = NoPomodoro THEN w
    ELSE [clearTimerIntervalW(w) EXCEPT
            !.t.currentPomodoro = NoPomodoro,
            !.t.timeLeft = 0,
            !.t.pomodoroSessions =
                Append(w.t.pomodoroSessions,
                       [duration |-> cur.duration, completed |-> TRUE])]

completePomodoroW(w) ==
    LET cur == w.t.currentPomodoro IN
    IF cur = NoPomodoro THEN w
    ELSE [clearTimerIntervalW(w) EXCEPT
            !.t.currentPomodoro = NoPomodoro,
            !.t.timeLeft = 0,
            !.t.pomodoroSessions =
                Append(w.t.pomodoroSessions,
                       [duration |-> cur.duration, completed |-> TRUE]),
            !.st.totalPomodoroSessions = w.st.totalPomodoroSessions + 1,
            !.st.totalFocusTime = w.st.totalFocusTime + cur.duration]

\* a break that is short whatever the count
BreakDuration_short(sessionCount) == 5

\* the break started after the session that made the count sessionCount + 1
BreakDuration(sessionCount) ==
    IF sessionCount > 0 /\ (sessionCount + 1) % 4 = 0 THEN 15 ELSE 5

RECURSIVE startPomodoroW(_, _, _)
RECURSIVE updateTimerW(_, _)

\* remaining, as updateTimer computes it for session cur at time t
remainingAt(cur, t) == Max(0, cur.duration * 60 * 1000 - (t - cur.startTime))

\* an updateTimer that starts no break when a focus session runs out
updateTimerW_noBreak(w, t) ==
    LET cur       == w.t.currentPomodoro
        remaining == remainingAt(cur, t)
        ticked    == [w EXCEPT !.t.timeLeft = remaining]
    IN  IF cur = NoPomodoro THEN [w EXCEPT !.t.timeLeft = 0]
        ELSE IF cur.endTime # NoEndTime /\ ~cur.completed THEN w
        ELSE IF remaining # 0 THEN ticked
        ELSE [completePomodoroW(ticked) EXCEPT
                !.t.sessionCount = w.t.sessionCount + 1,
                !.t.isBreak = ~w.t.isBreak]

\* an updateTimer that counts the timer down by one second per tick
updateTimerW_decrement(w, t) ==
    LET cur       == w.t.currentPomodoro
        remaining == Max(0, w.t.timeLeft - 1000)
        ticked    == [w EXCEPT !.t.timeLeft = remaining]
        counted   == [completePomodoroW(ticked) EXCEPT
                         !.t.sessionCount = w.t.sessionCount + 1]
    IN  IF cur = NoPomodoro THEN [w EXCEPT !.t.timeLeft = 0]
        ELSE IF cur.endTime # NoEndTime /\ ~cur.completed THEN w
        ELSE IF remaining # 0 THEN ticked
        ELSE IF ~w.t.isBreak
        THEN startPomodoroW([counted EXCEPT !.t.isBreak = TRUE],
                            BreakDuration(w.t.sessionCount), t)
        ELSE [counted EXCEPT !.t.isBreak = FALSE]

\* an updateTimer that shows the remaining time and completes nothing
updateTimerW_display(w, t) ==
    LET cur == w.t.currentPomodoro IN
    IF cur = NoPomodoro THEN [w EXCEPT !.t.timeLeft = 0]
    ELSE IF cur.endTime # NoEndTime /\ ~cur.completed THEN w
    ELSE [w EXCEPT !.t.timeLeft = remainingAt(cur, t)]

\* updateTimer read at time t
updateTimerW(w, t) ==
    LET cur          == w.t.currentPomodoro
        isBreak      == w.t.isBreak
        sessionCount == w.t.sessionCount
        remaining    == remainingAt(cur, t)
        ticked       == [w EXCEPT !.t.timeLeft = remaining]
        counted      == [completePomodoroW(ticked) EXCEPT
                            !.t.sessionCount = sessionCount + 1]
    IN  IF cur = NoPomodoro THEN [w EXCEPT !.t.timeLeft = 0]
        ELSE IF cur.endTime # NoEndTime /\ ~cur.completed THEN w
        ELSE IF remaining # 0 THEN ticked
        ELSE IF ~isBreak
        THEN startPomodoroW([counted EXCEPT !.t.isBreak = TRUE],
                            BreakDuration(sessionCount), t)
        ELSE [counted EXCEPT !.t.isBreak = FALSE]

\* startPomodoro(taskId, duration) called at time t
startPomodoroW(w, duration, t) ==
    LET session == [ startTime |-> t, endTime |-> NoEndTime,
                     duration |-> duration, completed |-> FALSE ]
        started == [clearTimerIntervalW(w) EXCEPT
                       !.t.currentPomodoro = session,
                       !.t.timeLeft = duration * 60 * 1000]
    IN  updateTimerW(setTimerIntervalW(started), t)

\* a pause that marks the session and leaves its timer ticking
pausePomodoroW_ticking(w, t) ==
    LET cur == w.t.currentPomodoro IN
    IF cur # NoPomodoro /\ cur.endTime = NoEndTime
    THEN [w EXCEPT !.t.currentPomodoro = [cur EXCEPT !.endTime = t]]
    ELSE w

pausePomodoroW(w, t) ==
    LET cur == w.t.currentPomodoro IN
    IF cur # NoPomodoro /\ cur.endTime = NoEndTime
    THEN [clearTimerIntervalW(w) EXCEPT
            !.t.currentPomodoro = [cur EXCEPT !.endTime = t]]
    ELSE w

\* a resume that shifts startTime and leaves the pause marker set
resumePomodoroW_keepMarker(w, t) ==
    LET cur == w.t.currentPomodoro
        pausedDuration == t - cur.endTime
    IN  IF cur # NoPomodoro /\ cur.endTime # NoEndTime
        THEN setTimerIntervalW(
                [w EXCEPT !.t.currentPomodoro.startTime =
                              cur.startTime + pausedDuration])
        ELSE w

\* a resume that restarts the countdown without shifting startTime
resumePomodoroW_noShift(w, t) ==
    LET cur == w.t.currentPomodoro IN
    IF cur # NoPomodoro /\ cur.endTime # NoEndTime
    THEN setTimerIntervalW(
            [w EXCEPT !.t.currentPomodoro = [cur EXCEPT !.endTime = NoEndTime]])
    ELSE w

resumePomodoroW(w, t) ==
    LET cur == w.t.currentPomodoro
        pausedDuration == t - cur.endTime
    IN  IF cur # NoPomodoro /\ cur.endTime # NoEndTime
        THEN setTimerIntervalW(
                [w EXCEPT !.t.currentPomodoro =
                    [cur EXCEPT !.startTime = cur.startTime + pausedDuration,
                                !.endTime = NoEndTime]])
        ELSE w

\* a cancel that records the session it discards
cancelPomodoroW_recording(w) ==
    [completePomodoroW(w) EXCEPT !.t.isBreak = FALSE]

cancelPomodoroW(w) ==
    [clearTimerIntervalW(w) EXCEPT
        !.t.currentPomodoro = NoPomodoro, !.t.timeLeft = 0, !.t.isBreak = FALSE]

\* one handler of the countdown ran and left the store as w
Handled(w, op, a) ==
    /\ timer' = w.t
    /\ intervals' = w.live
    /\ stats' = w.st
    /\ focusCompleted' = IF ~timer.isBreak /\ w.t.isBreak
                         THEN focusCompleted + 1 ELSE focusCompleted
    /\ last' = Call(op, a)
    /\ UNCHANGED <<now, notTimer>>

startPomodoro(duration) ==
    /\ Len(timer.pomodoroSessions) + 2 <= MaxSessions
    /\ Handled(startPomodoroW(Store, duration, now), "startPomodoro", duration)

pausePomodoro == Handled(pausePomodoroW(Store, now), "pausePomodoro", 0)

\* (the step is labelled with pausedDuration, 0 when no session is paused)
resumePomodoro ==
    Handled(resumePomodoroW(Store, now), "resumePomodoro",
            IF timer.currentPomodoro.endTime # NoEndTime
            THEN now - timer.currentPomodoro.endTime ELSE 0)

completePomodoro == Handled(completePomodoroW(Store), "completePomodoro", 0)

cancelPomodoro == Handled(cancelPomodoroW(Store), "cancelPomodoro", 0)

\* the callback of the live timer h fires: get().updateTimer()
intervalTick(h) ==
    /\ h \in intervals
    /\ Handled(updateTimerW(Store, now), "updateTimer", h)

\* time passes
Elapse(d) ==
    /\ now + d <= PageLoad + MaxElapse * d
    /\ now' = now + d
    /\ last' = Call("Elapse", 0)
    /\ UNCHANGED <<stats, timerVars, notTimer>>

\* time passes until the running session is over, or over by d
RunOut(d) ==
    LET cur == timer.currentPomodoro IN
    /\ cur # NoPomodoro /\ cur.endTime = NoEndTime
    /\ now < cur.startTime + cur.duration * 60 * 1000
    /\ cur.startTime + cur.duration * 60 * 1000 + d
          <= PageLoad + MaxMinutes * 60 * 1000
    /\ now' = cur.startTime + cur.duration * 60 * 1000 + d
    /\ last' = Call("RunOut", 0)
    /\ UNCHANGED <<stats, timerVars, notTimer>>

\* the clock advances to the moment the running session is over
RunDown ==
    LET cur == timer.currentPomodoro IN
    /\ cur # NoPomodoro /\ cur.endTime = NoEndTime
    /\ now < cur.startTime + cur.duration * 60 * 1000
    /\ now' = cur.startTime + cur.duration * 60 * 1000
    /\ last' = Call("RunDown", 0)
    /\ UNCHANGED <<stats, timerVars, notTimer>>

\* the page is reloaded: the timers of the old page are gone, and persist
\* rehydrates the store with the state it wrote to localStorage (the whole
\* state, the stale timerInterval handle included)
reload ==
    /\ intervals' = {}
    /\ last' = Call("reload", 0)
    /\ UNCHANGED <<timer, focusCompleted, stats, now, notTimer>>

InitPomodoro ==
    /\ timer = InitTimer
    /\ intervals = {}
    /\ focusCompleted = 0

-----------------------------------------------------------------------------
(* DSAStore (goals-manager.tsx:280-356): the question list of the DSA      *)
(* sheet, kept in memory by a singleton and written to localStorage under  *)
(* 'dsa-sheet-questions' by every mutator.  A question is modelled by id   *)
(* and done; question and topic are written by addQuestion only.           *)

\* the JavaScript values `questions` can hold: what JSON.parse can return
JsArray(items) == [kind |-> "array", items |-> items]
JsNull == [kind |-> "null", items |-> <<>>]
JsObject == [kind |-> "object", items |-> <<>>]
JsNumber == [kind |-> "number", items |-> <<>>]

\* ids are Date.now() readings
QuestionIds == 0..MaxNow
Questions == [id : QuestionIds, done : BOOLEAN]

\* the question lists of at most n questions
RECURSIVE ListsUpTo(_)
ListsUpTo(n) ==
    IF n = 0 THEN {<<>>}
    ELSE LET shorter == ListsUpTo(n - 1) IN
         shorter \cup {Append(l, q) : l \in {x \in shorter : Len(x) = n - 1},
                                      q \in Questions}

\* the values a stored text of the model can stand for
JsValues == {JsArray(l) : l \in ListsUpTo(MaxQuestions)}
                \cup {JsNull, JsObject, JsNumber}

QuestionText(q) ==
    "{\"done\":" \o (IF q.done THEN "true" ELSE "false")
        \o ",\"id\":" \o ToString(q.id) \o "}"

RECURSIVE JoinQuestions(_)
JoinQuestions(items) ==
    IF items = <<>> THEN ""
    ELSE IF Len(items) = 1 THEN QuestionText(items[1])
    ELSE QuestionText(items[1]) \o "," \o JoinQuestions(Tail(items))

\* JSON.stringify
Stringify(v) ==
    CASE v.kind = "array"  -> "[" \o JoinQuestions(v.items) \o "]"
      [] v.kind = "null"   -> "null"
      [] v.kind = "object" -> "{}"
      [] v.kind = "number" -> "7"

\* JSON.parse: the value the text is the JSON of; it throws a SyntaxError
\* when there is none
Parse(text) ==
    IF \E v \in JsValues : Stringify(v) = text
    THEN [threw |-> FALSE, value |-> CHOOSE v \in JsValues : Stringify(v) = text]
    ELSE [threw |-> TRUE, value |-> JsNull]

\* localStorage's entry: getItem returns null when there is none
NoItem == [present |-> FALSE, text |-> ""]
Item(text) == [present |-> TRUE, text |-> text]

\* what localStorage can hold under the key when the page is loaded
StoredItems ==
    { NoItem, Item(""), Item("{\"done\":"), Item("null"), Item("{}"), Item("7"),
      Item(Stringify(JsArray(<<>>))),
      Item(Stringify(JsArray(<<[id |-> 0, done |-> TRUE]>>))) }

\* private questions: DSAQuestion[] = []
NoStore == [instance |-> FALSE, questions |-> JsArray(<<>>)]

\* the label of a DSAStore step: the call, its id argument, how reading and
\* writing localStorage went ("none" when the call did neither), whether
\* the listeners were notified and whether the call threw
DsaStep(op, id, read, write, notified, threw) ==
    [op |-> op, id |-> id, read |-> read, write |-> write,
     notified |-> notified, threw |-> threw]
NoDsaStep == DsaStep("none", 0, "none", "none", FALSE, FALSE)

\* loadFromStorage: questions after it, from a freshly constructed store
loadFromStorageQ(item, read) ==
    IF read = "failed" THEN JsArray(<<>>)
    ELSE IF ~item.present \/ item.text = "" THEN JsArray(<<>>)
    ELSE IF Parse(item.text).threw THEN JsArray(<<>>)
    ELSE Parse(item.text).value

\* a save that lets the failure out
saveToStorage_throwing(value, item, write) ==
    IF write = "ok" THEN [item |-> Item(Stringify(value)), threw |-> FALSE]
    ELSE [item |-> item, threw |-> TRUE]

\* saveToStorage: the entry after it (setItem can fail: quota, blocked storage)
saveToStorage(value, item, write) ==
    IF write = "ok" THEN [item |-> Item(Stringify(value)), threw |-> FALSE]
    ELSE [item |-> item, threw |-> FALSE]

\* [...this.questions, newQuestion]: a TypeError unless questions is iterable
addQuestionQ(v, id, done) == JsArray(Append(v.items, [id |-> id, done |-> done]))

\* this.questions.map(q => q.id === id ? { ...q, ...updates } : q)
updateQuestionQ(v, id, updates) ==
    JsArray([i \in DOMAIN v.items |->
        IF v.items[i].id = id THEN Spread(v.items[i], updates) ELSE v.items[i]])

\* this.questions.filter(q => q.id !== id)
deleteQuestionQ(v, id) ==
    JsArray(SelectSeq(v.items, LAMBDA q : q.id # id))

\* one mutator ran: it assigned `value`, saved and notified; or (`value`
\* could not be computed from what questions holds) threw a TypeError
\* before it touched localStorage, whatever a write would have done
Mutated(op, id, computable, value, write) ==
    /\ dsa.instance
    /\ IF computable
       THEN LET saved == saveToStorage(value, storage, write) IN
            /\ dsa' = [dsa EXCEPT !.questions = value]
            /\ storage' = saved.item
            /\ lastDsa' = DsaStep(op, id, "none", write, ~saved.threw, saved.threw)
       ELSE /\ write = "ok"
            /\ lastDsa' = DsaStep(op, id, "none", "none", FALSE, TRUE)
            /\ UNCHANGED <<dsa, storage>>
    /\ UNCHANGED <<now, notDsa>>

\* DSAStore.getInstance(), the first call: construct and load
getInstance(read) ==
    /\ ~dsa.instance
    /\ dsa' = [instance |-> TRUE, questions |-> loadFromStorageQ(storage, read)]
    /\ lastDsa' = DsaStep("getInstance", 0, read, "none", FALSE, FALSE)
    /\ UNCHANGED <<storage, now, notDsa>>

setQuestions(items, write) ==
    Mutated("setQuestions", 0, TRUE, JsArray(items), write)

addQuestion(done, write) ==
    /\ Len(dsa.questions.items) < MaxQuestions
    /\ Mutated("addQuestion", now, dsa.questions.kind = "array",
               addQuestionQ(dsa.questions, now, done), write)

updateQuestion(id, updates, write) ==
    Mutated("updateQuestion", id, dsa.questions.kind = "array",
            updateQuestionQ(dsa.questions, id, updates), write)

deleteQuestion(id, write) ==
    Mutated("deleteQuestion", id, dsa.questions.kind = "array",
            deleteQuestionQ(dsa.questions, id), write)

\* a millisecond passes between two calls
dsaTick ==
    /\ now < MaxNow
    /\ now' = now + 1
    /\ lastDsa' = DsaStep("tick", 0, "none", "none", FALSE, FALSE)
    /\ UNCHANGED <<dsa, storage, notDsa>>

InitDsa ==
    /\ dsa = NoStore
    /\ storage = NoItem
    /\ lastDsa = NoDsaStep

-----------------------------------------------------------------------------
(* usePlaylists: the pagination-reconciling importer.  A playlist is        *)
(* modelled by title, videos, order, fetching, error and fetchedAt; its id  *)
(* is its key in `playlists`, url and createdAt are written once and never  *)
(* read.  A video is modelled by id, position, done and revisit; title,     *)
(* thumbnail and channelTitle are copied from the response and never read.  *)

\* extractPlaylistId's null, an undefined title and an undefined error: all
\* three are tested by truthiness only, where "" behaves like null/undefined
NullId == ""
NoTitle == ""
NoError == ""
\* fetchedAt of a playlist that has not been finalized (undefined)
NoTime == -1

\* the raw inputs handed to addPlaylistByUrl
UrlInputs ==
    { "PLabcdefghij",
      "https://youtube.com/playlist?list=PLabcdefghij",
      "https://youtube.com/watch?v=abc",
      "https://youtube.com/playlist?list=",
      "not a url, no list param",
      "httpPLabcdefgh",
      "PLshort" }

\* /^[A-Za-z0-9_-]{10,}$/.test(url)
MatchesIdPattern(url) == url \in {"PLabcdefghij", "httpPLabcdefgh"}

\* url.includes('http')
IncludesHttp(url) ==
    url \in { "https://youtube.com/playlist?list=PLabcdefghij",
              "https://youtube.com/watch?v=abc",
              "https://youtube.com/playlist?list=",
              "httpPLabcdefgh" }

\* new URL(url.trim()) does not throw
ParsesAsURL(url) ==
    url \in { "https://youtube.com/playlist?list=PLabcdefghij",
              "https://youtube.com/watch?v=abc",
              "https://youtube.com/playlist?list=" }

\* new URL(url).searchParams.get('list'), "" standing for null as well
ListParam(url) ==
    IF url = "https://youtube.com/playlist?list=PLabcdefghij"
    THEN "PLabcdefghij" ELSE ""

\* an extractPlaylistId that hands back whatever it was given
extractPlaylistId_any(url) == url

extractPlaylistId(url) ==
    IF MatchesIdPattern(url) /\ ~IncludesHttp(url) THEN url
    ELSE IF ~ParsesAsURL(url) THEN NullId
    ELSE IF ListParam(url) # "" THEN ListParam(url)
    ELSE NullId

\* the video ids the remote serves; "" is an item without resourceId.videoId
VideoIds == {"v1", "v2", "v3"}
MissingId == ""

\* the item lists one page of the remote's response may carry
Pages == { <<>>, <<"v1", "v2">>, <<"v3">>, <<"v2">>, <<MissingId>> }

\* the titles a metadata response may carry (NoTitle: it carries none)
Titles == {NoTitle, "Course"}

\* how a page request may end
Outcomes == {"ok", "notOk", "throws"}

\* a failed page request that reports no error text
ErrorOf_none(outcome) == NoError

\* the error text of a failed page request
ErrorOf(outcome) ==
    IF outcome = "notOk" THEN "Fetch failed: 403 quota"
    ELSE "Failed to fetch"

\* the PlaylistVideo built from one response item (the remote numbers the
\* items of a playlist 0, 1, 2, ... in snippet.position)
VideoOf(playlistId, videoId, position) ==
    [ id |-> IF videoId # MissingId THEN videoId
             ELSE playlistId \o "-" \o ToString(position),
      position |-> position, done |-> FALSE, revisit |-> FALSE ]

\* the batch built from a page that arrives after `seen` items
BatchOf(playlistId, page, seen) ==
    [i \in DOMAIN page |-> VideoOf(playlistId, page[i], seen + i - 1)]

\* newVideos after `for (const v of batch) newVideos[v.id] = v`
RECURSIVE AssignAll(_, _)
AssignAll(videos, batch) ==
    IF batch = <<>> THEN videos
    ELSE AssignAll(WithKey(videos, Head(batch).id, Head(batch)), Tail(batch))

\* a merge that writes the videos and forgets the order
MergeBatch_videosOnly(pl, batch) ==
    [pl EXCEPT !.videos = AssignAll(pl.videos, batch)]

\* a merge that drops the videos already there
MergeBatch_replace(pl, batch) ==
    [pl EXCEPT !.videos = AssignAll(EmptyObj, batch),
               !.order = [i \in DOMAIN batch |-> batch[i].id]]

\* the onBatch merge of addPlaylistByUrl and refetchPlaylist
MergeBatch(pl, batch) ==
    [pl EXCEPT !.videos = AssignAll(pl.videos, batch),
               !.order = pl.order \o [i \in DOMAIN batch |-> batch[i].id]]

\* the optimistic placeholder of addPlaylistByUrl
Placeholder ==
    [ title |-> "Loading...", videos |-> EmptyObj, order |-> <<>>,
      fetching |-> TRUE, error |-> NoError, fetchedAt |-> NoTime ]

\* the reset of refetchPlaylist
ResetPlaylist(pl) ==
    [pl EXCEPT !.videos = EmptyObj, !.order = <<>>,
               !.fetching = TRUE, !.error = NoError]

\* a || b on strings
OrElse(a, b) == IF a # "" THEN a ELSE b

\* a finalize that forgets to record the error
FinalizeAdd_noError(pl, title, error, t) ==
    [pl EXCEPT !.title = OrElse(title, OrElse(pl.title, "Untitled Playlist")),
               !.fetching = FALSE, !.fetchedAt = t]

\* the final set of addPlaylistByUrl
FinalizeAdd(pl, title, error, t) ==
    [pl EXCEPT !.title = OrElse(title, OrElse(pl.title, "Untitled Playlist")),
               !.fetching = FALSE, !.error = error, !.fetchedAt = t]

\* a final set that leaves the title alone
FinalizeRefetch_keepTitle(pl, title, error, t) ==
    [pl EXCEPT !.fetching = FALSE, !.error = error, !.fetchedAt = t]

\* the final set of refetchPlaylist
FinalizeRefetch(pl, title, error, t) ==
    [pl EXCEPT !.title = OrElse(title, pl.title),
               !.fetching = FALSE, !.error = error, !.fetchedAt = t]

Finalize(kind, pl, title, error, t) ==
    IF kind = "add" THEN FinalizeAdd(pl, title, error, t)
    ELSE FinalizeRefetch(pl, title, error, t)

-----------------------------------------------------------------------------
(* usePlaylists: the store calls and the responses as actions.  One action  *)
(* is one turn of the event loop: a call runs until it first awaits a       *)
(* response, and a response runs the continuation until the next await or   *)
(* the final set.                                                           *)

\* the playlist ids the inputs lead to
PlaylistIds == {"PLabcdefghij"}

\* the value an addPlaylistByUrl promise resolves to ({ ok, error })
Ret(ok, error) == [returned |-> TRUE, ok |-> ok, error |-> error]
NoRet == [returned |-> FALSE, ok |-> FALSE, error |-> NoError]
RetOf(error) == Ret(error = NoError, error)

\* the label of one importer step: the call or response, its argument, the
\* playlist it finalized (if any), the requests it sent and what it returned
\* (out and page: how the page request ended and the items it carried)
ImpStep(op, arg, fin, net, ret) ==
    [ op |-> op, arg |-> arg, fin |-> fin, net |-> net, ret |-> ret,
      out |-> "", page |-> <<>> ]

PageStep(step, out, page) == [step EXCEPT !.out = out, !.page = page]

NoImpStep == ImpStep("none", "", "", 0, NoRet)

\* fetchAllPlaylistVideos past its first two fetch calls: the metadata
\* request and the first page request are in flight
NewImport(kind, id) ==
    [ kind |-> kind, id |-> id, all |-> <<>>, title |-> NoTitle,
      meta |-> "pending", pc |-> "page", pages |-> 0,
      had |-> id \in DOMAIN playlists /\ playlists[id].order # <<>> ]
\* (pc: the await the call is suspended at: "page" is the fetch of a page,
\* "text" the res.text() of a non-success response, "title" titlePromise;
\* had: the playlist held videos when the call began, kept for the properties)

RemoveAt(seq, i) == SubSeq(seq, 1, i - 1) \o SubSeq(seq, i + 1, Len(seq))

\* pls after set((s) => ...) applied f to playlist id, if it is there
SetIn(pls, id, f(_)) ==
    IF id \in DOMAIN pls THEN [pls EXCEPT ![id] = f(pls[id])] ELSE pls

addPlaylistByUrl(url) ==
    LET id == extractPlaylistId(url) IN
    /\ UNCHANGED <<apiKey, notPlaylists>>
    /\ IF id = NullId
       THEN /\ lastImp' = ImpStep("addPlaylistByUrl", url, "", 0,
                                  Ret(FALSE, "Invalid playlist URL or ID"))
            /\ UNCHANGED <<playlists, order, imports>>
       ELSE IF id \in DOMAIN playlists
       THEN /\ lastImp' = ImpStep("addPlaylistByUrl", url, "", 0,
                                  Ret(TRUE, NoError))
            /\ UNCHANGED <<playlists, order, imports>>
       ELSE IF apiKey = ""
       THEN /\ playlists' =
                 WithKey(playlists, id,
                         FinalizeAdd(Placeholder, NoTitle,
                                     "API key required", now))
            /\ order' = Append(order, id)
            /\ lastImp' = ImpStep("addPlaylistByUrl", url, id, 0,
                                  Ret(FALSE, "API key required"))
            /\ UNCHANGED imports
       ELSE /\ playlists' = WithKey(playlists, id, Placeholder)
            /\ order' = Append(order, id)
            /\ imports' = Append(imports, NewImport("add", id))
            /\ lastImp' = ImpStep("addPlaylistByUrl", url, "", 2, NoRet)

refetchPlaylist(id) ==
    /\ UNCHANGED <<order, apiKey, notPlaylists>>
    /\ IF id \notin DOMAIN playlists
       THEN /\ lastImp' = ImpStep("refetchPlaylist", id, "", 0, NoRet)
            /\ UNCHANGED <<playlists, imports>>
       ELSE IF apiKey = ""
       THEN /\ playlists' =
                 [playlists EXCEPT ![id] =
                     FinalizeRefetch(ResetPlaylist(playlists[id]), NoTitle,
                                     "API key required", now)]
            /\ lastImp' = ImpStep("refetchPlaylist", id, id, 0, NoRet)
            /\ UNCHANGED imports
       ELSE /\ playlists' = [playlists EXCEPT ![id] = ResetPlaylist(playlists[id])]
            /\ imports' = Append(imports, NewImport("refetch", id))
            /\ lastImp' = ImpStep("refetchPlaylist", id, "", 2, NoRet)

\* a return that never happens: the call stays suspended
Return_stuck(i, pls, title, error, op, out, page) ==
    /\ playlists' = playlists
    /\ imports' = imports
    /\ lastImp' = PageStep(ImpStep(op, imports[i].id, "", 0, NoRet), out, page)

\* a return whose final set writes the playlist whether it is there or not
Return_recreate(i, pls, title, error, op, out, page) ==
    LET imp == imports[i] IN
    /\ playlists' =
         WithKey(pls, imp.id,
                 Finalize(imp.kind,
                          IF imp.id \in DOMAIN pls THEN pls[imp.id] ELSE Placeholder,
                          title, error, now))
    /\ imports' = RemoveAt(imports, i)
    /\ lastImp' =
         PageStep(ImpStep(op, imp.id, imp.id, 0,
                          IF imp.kind = "add" THEN RetOf(error) ELSE NoRet),
                  out, page)

\* import i returns { title, error }: the caller's final set, and for
\* addPlaylistByUrl the value its promise resolves to
Return(i, pls, title, error, op, out, page) ==
    LET imp == imports[i] IN
    /\ playlists' =
         SetIn(pls, imp.id, LAMBDA pl : Finalize(imp.kind, pl, title, error, now))
    /\ imports' = RemoveAt(imports, i)
    /\ lastImp' =
         PageStep(ImpStep(op, imp.id, imp.id, 0,
                          IF imp.kind = "add" THEN RetOf(error) ELSE NoRet),
                  out, page)

\* the metadata request of import i ends: with a response carrying title t
\* (NoTitle when it has none), with a non-success status, or by throwing;
\* fetchPlaylistMetadata resolves to undefined in the last two cases
metadataResponse(i, outcome, t) ==
    LET title == IF outcome = "ok" THEN t ELSE NoTitle IN
    /\ imports[i].meta = "pending"
    /\ UNCHANGED <<order, apiKey, notPlaylists>>
    /\ IF imports[i].pc = "title"
       THEN Return(i, playlists, title, NoError, "metadataResponse", outcome, <<>>)
       ELSE /\ imports' = [imports EXCEPT
                             ![i].title = title,
                             ![i].meta = IF outcome = "ok" THEN "done" ELSE "failed"]
            /\ lastImp' =
                 PageStep(ImpStep("metadataResponse", imports[i].id, "", 0, NoRet),
                          outcome, <<>>)
            /\ UNCHANGED playlists

\* the page request of import i ends: with a response carrying `page` and,
\* when `next`, a nextPageToken; with a non-success status; or by throwing
pageResponse(i, outcome, page, next) ==
    LET imp    == imports[i]
        batch  == BatchOf(imp.id, page, Len(imp.all))
        merged == SetIn(playlists, imp.id, LAMBDA pl : MergeBatch(pl, batch))
        step(net) == PageStep(ImpStep("pageResponse", imp.id, "", net, NoRet),
                              outcome, IF outcome = "ok" THEN page ELSE <<>>)
    IN
    /\ imp.pc = "page"
    /\ next => imp.pages + 1 < MaxPages
    /\ UNCHANGED <<order, apiKey, notPlaylists>>
    /\ IF outcome = "throws"
       THEN Return(i, playlists, imp.title, ErrorOf(outcome),
                   "pageResponse", outcome, <<>>)
       ELSE IF outcome = "notOk"
       THEN /\ imports' = [imports EXCEPT ![i].pc = "text"]
            /\ lastImp' = step(0)
            /\ UNCHANGED playlists
       ELSE IF next
       THEN /\ playlists' = merged
            /\ imports' = [imports EXCEPT ![i].all = imp.all \o batch,
                                          ![i].pages = imp.pages + 1]
            /\ lastImp' = step(1)
       ELSE IF imp.meta # "pending"
       THEN Return(i, merged, imp.title, NoError, "pageResponse", outcome, page)
       ELSE /\ playlists' = merged
            /\ imports' = [imports EXCEPT ![i].all = imp.all \o batch,
                                          ![i].pages = imp.pages + 1,
                                          ![i].pc = "title"]
            /\ lastImp' = step(0)

\* res.text() of the non-success response of import i settles: with the
\* body, or by throwing
textResponse(i, outcome) ==
    /\ imports[i].pc = "text"
    /\ UNCHANGED <<order, apiKey, notPlaylists>>
    /\ Return(i, playlists, imports[i].title, ErrorOf(outcome),
              "textResponse", outcome, <<>>)

removePlaylist(playlistId) ==
    /\ playlists' = [id \in DOMAIN playlists \ {playlistId} |-> playlists[id]]
    /\ order' = SelectSeq(order, LAMBDA id : id # playlistId)
    /\ lastImp' = ImpStep("removePlaylist", playlistId, "", 0, NoRet)
    /\ UNCHANGED <<apiKey, imports, notPlaylists>>

toggleVideoField(playlistId, videoId, field) ==
    /\ playlists' =
         IF playlistId \in DOMAIN playlists
            /\ videoId \in DOMAIN playlists[playlistId].videos
         THEN [playlists EXCEPT ![playlistId].videos[videoId][field] = ~@]
         ELSE playlists
    /\ lastImp' = ImpStep("toggleVideoField", playlistId, "", 0, NoRet)
    /\ UNCHANGED <<order, apiKey, imports, notPlaylists>>

InitPlaylists ==
    /\ playlists = EmptyObj
    /\ order = <<>>
    /\ imports = <<>>
    /\ lastImp = NoImpStep

\* the video ids a caller can name: the remote's and those in the store
KnownVideoIds ==
    VideoIds \cup UNION {DOMAIN playlists[id].videos : id \in DOMAIN playlists}

-----------------------------------------------------------------------------
(* PlaylistTrackerPage (playlist-tracker-page.tsx): the refresh button of   *)
(* the page that shows playlist TrackedId.  The page stays mounted.         *)

TrackedId == "PLabcdefghij"

\* currentProgress of handleRefresh: the (video, field) pairs of the videos
\* in pl.order whose flag is set
ProgressOf(pl) ==
    { p \in Range(pl.order) \X {"done", "revisit"} :
        p[1] \in DOMAIN pl.videos /\ pl.videos[p[1]][p[2]] }

\* refreshingRef, whether a handleRefresh call is suspended at
\* `await refetchPlaylist`, its currentProgress, and the currentProgress of
\* the setTimeout callbacks that have not run yet, oldest first
NoTracker ==
    [refreshing |-> FALSE, awaiting |-> FALSE, progress |-> {}, timeouts |-> <<>>]

\* the playlists after the timeout callback ran: one toggleVideoField call
\* for every flag of currentProgress (a call for a video that is not there
\* changes nothing; the fourth argument `true` is not a parameter of
\* toggleVideoField)
Reapply(pls, id, progress) ==
    IF id \notin DOMAIN pls THEN pls
    ELSE [pls EXCEPT ![id].videos =
            [v \in DOMAIN @ |->
                [@[v] EXCEPT
                    !.done = IF <<v, "done">> \in progress THEN ~@ ELSE @,
                    !.revisit = IF <<v, "revisit">> \in progress THEN ~@ ELSE @]]]

\* a click on the refresh button: handleRefresh up to `await refetchPlaylist`
handleRefresh ==
    /\ TrackedId \in DOMAIN playlists
    /\ ~tracker.refreshing
    /\ Len(tracker.timeouts) < MaxRefreshes
    /\ tracker' = [tracker EXCEPT
                     !.refreshing = TRUE, !.awaiting = TRUE,
                     !.progress = ProgressOf(playlists[TrackedId])]
    /\ refetchPlaylist(TrackedId)

\* handleRefresh past `await refetchPlaylist`, in the turn the promise
\* resolves in: it schedules the restore and clears refreshingRef
Continued ==
    tracker' =
        IF tracker.awaiting /\ imports' = <<>>
        THEN [tracker EXCEPT
                !.refreshing = FALSE, !.awaiting = FALSE, !.progress = {},
                !.timeouts = Append(@, tracker.progress)]
        ELSE tracker

\* the oldest setTimeout callback runs
restoreProgress ==
    /\ tracker.timeouts # <<>>
    /\ playlists' = Reapply(playlists, TrackedId, Head(tracker.timeouts))
    /\ tracker' = [tracker EXCEPT !.timeouts = Tail(@)]
    /\ lastImp' = ImpStep("restoreProgress", TrackedId, "", 0, NoRet)
    /\ UNCHANGED <<order, apiKey, imports, notPlaylists>>

InitTracker == tracker = NoTracker

-----------------------------------------------------------------------------
(* PomodoroTimer (part_004:24-210): the timer component that keeps its     *)
(* countdown in local React state.  currentSession is modelled by its type *)
(* (duration and startTime are only displayed), times are in seconds.  One *)
(* action is one event handler or timer callback together with the effects *)
(* React runs after it.                                                    *)

\* currentSession when there is none (null)
NoSession == "none"

\* useState(5): the break length the auto-break is started with
customBreakMinutes == 5

\* the minutes a session is started with from the controls
PanelMinutes == {1, customBreakMinutes}

\* (timeouts: the setTimeout callbacks of handleTimerComplete still pending;
\* stopped: the user pressed Stop while one was pending and has started
\* nothing since, kept for the properties; step: the handler or callback
\* that led here)
NoPanel ==
    [ timerState |-> "idle", currentSession |-> NoSession,
      timeLeft |-> 0, totalTime |-> 0,
      timeouts |-> 0, stopped |-> FALSE, step |-> "none" ]

\* the five setters startFocusSession and startBreakSession call
startSessionP(p, type, minutes) ==
    [p EXCEPT !.currentSession = type, !.timerState = "running",
              !.timeLeft = minutes * 60, !.totalTime = minutes * 60]

\* the five setters handleStop and handleTimerComplete call
resetP(p) ==
    [p EXCEPT !.timerState = "idle", !.currentSession = NoSession,
              !.timeLeft = 0, !.totalTime = 0]

\* the callback handleTimerComplete hands to setTimeout
autoBreakP(p) == startSessionP(p, "break", customBreakMinutes)

handleTimerCompleteP(p) ==
    IF p.currentSession = NoSession THEN p
    ELSE IF p.currentSession = "focus"
    THEN [resetP(p) EXCEPT !.timeouts = p.timeouts + 1, !.stopped = FALSE]
    ELSE resetP(p)

\* (the start buttons of the controls are rendered while the timer is idle)
startFocusSession(minutes) ==
    /\ panel.timerState = "idle"
    /\ panel' = [startSessionP(panel, "focus", minutes) EXCEPT
                    !.stopped = FALSE, !.step = "startFocusSession"]
    /\ UNCHANGED notPanel

startBreakSession(minutes) ==
    /\ panel.timerState = "idle"
    /\ panel' = [startSessionP(panel, "break", minutes) EXCEPT
                    !.stopped = FALSE, !.step = "startBreakSession"]
    /\ UNCHANGED notPanel

\* (Pause and Stop are rendered while the timer is not idle)
handlePause ==
    /\ panel.timerState # "idle"
    /\ panel' = [panel EXCEPT
                    !.timerState = IF @ = "paused" THEN "running" ELSE "paused",
                    !.step = "handlePause"]
    /\ UNCHANGED notPanel

handleStop ==
    /\ panel.timerState # "idle"
    /\ panel' = [resetP(panel) EXCEPT
                    !.stopped = panel.timeouts > 0, !.step = "handleStop"]
    /\ UNCHANGED notPanel

\* the interval of the countdown effect fires, and the completion effect
\* runs when timeLeft has reached 0.  (An interval is created when
\* timerState changes, so one that is live while a timeout is pending was
\* created after the timeout was set, and its first tick comes later.)
secondTick ==
    /\ panel.timerState = "running" /\ panel.timeLeft > 0
    /\ panel.timeouts = 0
    /\ LET ticked == [panel EXCEPT !.timeLeft = Max(0, panel.timeLeft - 1)] IN
       panel' = [ (IF ticked.timeLeft = 0 /\ ticked.totalTime > 0
                   THEN handleTimerCompleteP(ticked) ELSE ticked)
                  EXCEPT !.step = "secondTick" ]
    /\ UNCHANGED notPanel

\* the timeout set by handleTimerComplete fires, one second after a focus
\* session was completed
autoBreak ==
    /\ panel.timeouts > 0
    /\ panel' = [autoBreakP(panel) EXCEPT
                    !.timeouts = panel.timeouts - 1, !.stopped = FALSE,
                    !.step = "autoBreak"]
    /\ UNCHANGED notPanel

InitPanel == panel = NoPanel

-----------------------------------------------------------------------------
(* useTodos: the store calls as actions *)

\* the patches a caller passes to update
Patches == { EmptyObj, [done |-> TRUE] }

create ==
    /\ nextId <= MaxId
    /\ todos' = createTodos(todos, nextId, now)
    /\ nextId' = nextId + 1
    /\ last' = Call("create", 0)
    /\ UNCHANGED now
    /\ UNCHANGED notTodos

\* a toggle that also counts the task as completed in the statistics
toggle_tracking(id) ==
    /\ todos' = toggleTodos(todos, id, now)
    /\ last' = Call("toggle", id)
    /\ stats' = trackTaskCompletionStats(stats, today)
    /\ UNCHANGED <<nextId, now, today, playlistVars, timerVars, dsaVars, tracker,
                   panel>>

toggle(id) ==
    /\ todos' = toggleTodos(todos, id, now)
    /\ last' = Call("toggle", id)
    /\ UNCHANGED <<nextId, now>>
    /\ UNCHANGED notTodos

update(id, patch) ==
    /\ todos' = updateTodos(todos, id, patch, now)
    /\ last' = Call("update", 0)
    /\ UNCHANGED <<nextId, now>>
    /\ UNCHANGED notTodos

remove(id) ==
    /\ todos' = removeTodos(todos, id)
    /\ last' = Call("remove", id)
    /\ UNCHANGED <<nextId, now>>
    /\ UNCHANGED notTodos

reorder(from, to) ==
    /\ todos' = reorderTodos(todos, from, to)
    /\ last' = Call("reorder", 0)
    /\ UNCHANGED <<nextId, now>>
    /\ UNCHANGED notTodos

clearCompleted ==
    /\ todos' = clearCompletedTodos(todos)
    /\ last' = Call("clearCompleted", 0)
    /\ UNCHANGED <<nextId, now>>
    /\ UNCHANGED notTodos

\* App.handleDragEnd: the drag-and-drop caller of reorder. overId = 0 stands
\* for a drop outside every item (e.over is null).
handleDragEnd(activeId, overId) ==
    /\ activeId # overId
    /\ overId # 0
    /\ LET from == findIndex(todos, activeId)
           to   == findIndex(todos, overId)
       IN  /\ from # -1
           /\ to # -1
           /\ reorder(from, to)

\* the clock advances between calls (two calls may also share a millisecond)
Tick ==
    /\ now < MaxNow
    /\ now' = now + 1
    /\ last' = Call("Tick", 0)
    /\ UNCHANGED <<todos, nextId>>
    /\ UNCHANGED notTodos

InitTodos ==
    /\ todos = SeedTodos
    /\ nextId = 3
    /\ now = 0
    /\ last = NoCall


Ids == 1..MaxId

\* the valid positions of the current list
Positions == 0..(Len(todos) - 1)

\* a build without VITE_YT_API_KEY (the key is read by the importer only)
InitAll ==
    /\ InitTodos /\ InitProductivity /\ InitPlaylists /\ InitPomodoro
    /\ InitDsa /\ InitTracker /\ InitPanel /\ apiKey = ""

\* a build without or with VITE_YT_API_KEY
InitImport ==
    /\ InitTodos /\ InitProductivity /\ InitPlaylists /\ InitPomodoro
    /\ InitDsa /\ InitTracker /\ InitPanel
    /\ apiKey \in {"", "AIzaKey"}

\* The to-do list driven through its callers: reorder only sees positions of
\* the current list.
NextTodo ==
    \/ create
    \/ \E id \in Ids : toggle(id)
    \/ \E id \in Ids, patch \in Patches : update(id, patch)
    \/ \E id \in Ids : remove(id)
    \/ \E i \in Positions : reorder(i, i)
    \/ \E a \in Ids, o \in {0} \cup Ids : handleDragEnd(a, o)
    \/ clearCompleted

SpecTodo == InitAll /\ [][NextTodo]_vars

\* The to-do list edited while the clock runs (no stamp depends on the order
\* of the list, so the reordering calls are left to SpecTodo).
NextTodoClock ==
    \/ create
    \/ \E id \in Ids : toggle(id)
    \/ \E id \in Ids, patch \in Patches : update(id, patch)
    \/ \E id \in Ids : remove(id)
    \/ clearCompleted
    \/ Tick

SpecTodoClock == InitAll /\ [][NextTodoClock]_vars

\* The bare store interface: reorder is called with any integers.
NextTodoRaw ==
    \/ create
    \/ \E id \in Ids : toggle(id)
    \/ \E id \in Ids, patch \in Patches : update(id, patch)
    \/ \E id \in Ids : remove(id)
    \/ \E from, to \in (-1)..MaxId : reorder(from, to)
    \/ clearCompleted
    \/ Tick

SpecTodoRaw == InitAll /\ [][NextTodoRaw]_vars

\* The to-do list and the statistics side by side, within one clock reading
\* and across days.
NextTodoStats ==
    \/ create
    \/ \E id \in Ids : toggle(id)
    \/ \E id \in Ids, patch \in Patches : update(id, patch)
    \/ \E id \in Ids : remove(id)
    \/ \E a \in Ids, o \in {0} \cup Ids : handleDragEnd(a, o)
    \/ clearCompleted
    \/ trackTaskCompletion
    \/ updateStreak
    \/ NextDay

SpecTodoStats == InitAll /\ [][NextTodoStats]_vars

\* the days after which the store is used again: the next day, after a gap
\* of one day, a month later
AwayDays == {1, 2, 31}

\* The statistics over the calendar: completions are tracked and the streak
\* is updated on days that lie up to a month apart.
NextCalendar ==
    \/ trackTaskCompletion
    \/ updateStreak
    \/ \E n \in AwayDays : DaysPass(n)

SpecCalendar == InitAll /\ [][NextCalendar]_vars

\* The importer with one import in flight at a time.
NextImport ==
    /\ UNCHANGED tracker
    /\ \/ \E url \in UrlInputs : imports = <<>> /\ addPlaylistByUrl(url)
       \/ \E id \in PlaylistIds : imports = <<>> /\ refetchPlaylist(id)
       \/ \E i \in DOMAIN imports, t \in Titles : metadataResponse(i, "ok", t)
       \/ \E i \in DOMAIN imports, outcome \in Outcomes \ {"ok"} :
            metadataResponse(i, outcome, NoTitle)
       \/ \E i \in DOMAIN imports, page \in Pages, next \in BOOLEAN :
            pageResponse(i, "ok", page, next)
       \/ \E i \in DOMAIN imports, outcome \in Outcomes \ {"ok"} :
            pageResponse(i, outcome, <<>>, FALSE)
       \/ \E i \in DOMAIN imports, outcome \in {"notOk", "throws"} :
            textResponse(i, outcome)
       \/ \E id \in PlaylistIds : removePlaylist(id)
       \/ \E id \in PlaylistIds, vid \in KnownVideoIds, field \in {"done", "revisit"} :
            toggleVideoField(id, vid, field)

SpecImport == InitImport /\ [][NextImport]_vars

\* a request of an import in flight resolves or fails
Response ==
    /\ UNCHANGED tracker
    /\ \/ \E i \in DOMAIN imports, outcome \in Outcomes, t \in Titles :
            metadataResponse(i, outcome, IF outcome = "ok" THEN t ELSE NoTitle)
       \/ \E i \in DOMAIN imports, page \in Pages, next \in BOOLEAN :
            pageResponse(i, "ok", page, next)
       \/ \E i \in DOMAIN imports, outcome \in Outcomes \ {"ok"} :
            pageResponse(i, outcome, <<>>, FALSE)
       \/ \E i \in DOMAIN imports, outcome \in {"notOk", "throws"} :
            textResponse(i, outcome)

\* The importer's calls and responses, without the edits of the flags (they
\* touch neither the calls in flight nor fetching and fetchedAt).
NextImportLive ==
    \/ \E url \in UrlInputs :
         imports = <<>> /\ addPlaylistByUrl(url) /\ UNCHANGED tracker
    \/ \E id \in PlaylistIds :
         imports = <<>> /\ refetchPlaylist(id) /\ UNCHANGED tracker
    \/ Response
    \/ \E id \in PlaylistIds : removePlaylist(id) /\ UNCHANGED tracker

\* The importer when no request stays unanswered for ever (the browser's
\* fetch settles every promise: with a response, or with a network error).
SpecImportLive == InitImport /\ [][NextImportLive]_vars /\ WF_vars(Response)

\* the pages of the one playlist the remote serves to every import of it
RemotePlaylist == << <<"v1", "v2">>, <<"v3">> >>

\* The importer with calls arriving while imports are in flight: every
\* import of the playlist is served the same pages, and every request
\* succeeds (the failures are SpecImport's).
NextImportConc ==
    /\ UNCHANGED tracker
    /\ \/ \E url \in UrlInputs :
            /\ extractPlaylistId(url) # NullId
            /\ Len(imports) < MaxImports
            /\ addPlaylistByUrl(url)
       \/ \E id \in PlaylistIds : Len(imports) < MaxImports /\ refetchPlaylist(id)
       \/ \E i \in DOMAIN imports, t \in Titles : metadataResponse(i, "ok", t)
       \/ \E i \in DOMAIN imports :
            LET k == imports[i].pages + 1 IN
            /\ k \in DOMAIN RemotePlaylist
            /\ pageResponse(i, "ok", RemotePlaylist[k], k < Len(RemotePlaylist))
       \/ \E id \in PlaylistIds : removePlaylist(id)
       \/ \E id \in PlaylistIds : toggleVideoField(id, "v1", "done")

SpecImportConc == InitImport /\ [][NextImportConc]_vars

\* the page is loaded with whatever an earlier visit, or anything else that
\* writes to localStorage, left under the DSA sheet's key
InitDsaStore ==
    /\ InitTodos /\ InitProductivity /\ InitPlaylists /\ InitPomodoro
    /\ InitTracker /\ InitPanel /\ apiKey = ""
    /\ dsa = NoStore
    /\ storage \in StoredItems
    /\ lastDsa = NoDsaStep

\* the lists a caller passes to setQuestions
QuestionLists == { <<>>, <<[id |-> 0, done |-> FALSE]>> }

\* how a localStorage call ends
StorageOutcomes == {"ok", "failed"}

\* The DSA sheet: the first getInstance, the mutators and the clock.
NextDsa ==
    \/ \E read \in StorageOutcomes : getInstance(read)
    \/ \E items \in QuestionLists, write \in StorageOutcomes :
         setQuestions(items, write)
    \/ \E write \in StorageOutcomes : addQuestion(FALSE, write)
    \/ \E id \in QuestionIds, done \in BOOLEAN, write \in StorageOutcomes :
         updateQuestion(id, [done |-> done], write)
    \/ \E id \in QuestionIds, write \in StorageOutcomes : deleteQuestion(id, write)
    \/ dsaTick

SpecDsa == InitDsaStore /\ [][NextDsa]_vars

\* the tracked playlist as an import of RemotePlaylist left it
ImportedPlaylist ==
    [ title |-> "Course",
      videos |-> AssignAll(EmptyObj, BatchOf(TrackedId, <<"v1", "v2", "v3">>, 0)),
      order |-> <<"v1", "v2", "v3">>,
      fetching |-> FALSE, error |-> NoError, fetchedAt |-> 0 ]

\* the tracker page is opened on the imported playlist
InitRefresh ==
    /\ InitTodos /\ InitProductivity /\ InitPomodoro /\ InitDsa /\ InitTracker /\ InitPanel
    /\ apiKey = "AIzaKey"
    /\ playlists = [id \in {TrackedId} |-> ImportedPlaylist]
    /\ order = <<TrackedId>>
    /\ imports = <<>>
    /\ lastImp = NoImpStep

\* the check boxes the user clicks on the tracker page
UserToggles == { <<"v1", "done">>, <<"v1", "revisit">>, <<"v2", "done">> }

\* The tracker page: refresh clicks, the responses of the refetch (all
\* successful, the remote serving RemotePlaylist), the user's toggles and
\* the deferred restore.
NextRefresh ==
    \/ handleRefresh
    \/ \E i \in DOMAIN imports : metadataResponse(i, "ok", "Course") /\ Continued
    \/ \E i \in DOMAIN imports :
         LET k == imports[i].pages + 1 IN
         /\ k \in DOMAIN RemotePlaylist
         /\ pageResponse(i, "ok", RemotePlaylist[k], k < Len(RemotePlaylist))
         /\ Continued
    \/ \E p \in UserToggles :
         toggleVideoField(TrackedId, p[1], p[2]) /\ UNCHANGED tracker
    \/ restoreProgress

SpecRefresh == InitRefresh /\ [][NextRefresh]_vars

\* The timer component: the controls, the countdown's ticks and the
\* deferred start of the break.
NextPanel ==
    \/ \E minutes \in PanelMinutes : startFocusSession(minutes)
    \/ \E minutes \in PanelMinutes : startBreakSession(minutes)
    \/ handlePause
    \/ handleStop
    \/ secondTick
    \/ autoBreak

SpecPanel == InitAll /\ [][NextPanel]_vars

\* the stores when the page has been loaded for the countdown: the clock
\* reads PageLoad
InitCountdown ==
    /\ todos = SeedTodos /\ nextId = 3 /\ last = NoCall
    /\ now = PageLoad
    /\ InitProductivity /\ InitPlaylists /\ InitPomodoro /\ apiKey = ""
    /\ InitDsa /\ InitTracker /\ InitPanel

\* The countdown: the session calls, the ticks of the live timers and the
\* passing of time.
NextTimer ==
    \/ \E duration \in Durations : startPomodoro(duration)
    \/ pausePomodoro
    \/ resumePomodoro
    \/ completePomodoro
    \/ cancelPomodoro
    \/ \E h \in intervals : intervalTick(h)
    \/ \E d \in Elapses : Elapse(d)
    \/ \E d \in {0} \cup Elapses : RunOut(d)

SpecTimer == InitCountdown /\ [][NextTimer]_vars

\* a tick of the live timer (setInterval fires its callback every second)
Ticking == \E h \in intervals : intervalTick(h)

\* The countdown over an unbounded stretch of time: the user starts sessions
\* in the first seconds after page load, and pauses, resumes and cancels at
\* any time; the timers tick and the clock runs on.
NextTimerLive ==
    \/ /\ now <= PageLoad + MaxElapse * 10000
       /\ \E duration \in {1} : startPomodoro(duration)
    \/ pausePomodoro
    \/ resumePomodoro
    \/ cancelPomodoro
    \/ Ticking
    \/ \E d \in Elapses : Elapse(d)
    \/ RunDown

\* The countdown across page loads: sessions are started, paused, resumed
\* and cancelled, the timers tick, time passes, and the page is reloaded at
\* any moment.
NextTimerRestart ==
    \/ \E duration \in {1} : startPomodoro(duration)
    \/ pausePomodoro
    \/ resumePomodoro
    \/ cancelPomodoro
    \/ Ticking
    \/ \E d \in Elapses : Elapse(d)
    \/ \E d \in {0} : RunOut(d)
    \/ reload

SpecTimerRestart == InitCountdown /\ [][NextTimerRestart]_vars

\* the browser keeps firing a live interval timer, and time does not stop
SpecTimerLive ==
    InitCountdown /\ [][NextTimerLive]_vars
        /\ WF_vars(Ticking) /\ WF_vars(RunDown)

-----------------------------------------------------------------------------
(* Properties of the to-do store *)

\* the ids of a list, in list order, and as a set
IdSeq(s) == [i \in DOMAIN s |-> s[i].id]
IdSet(s) == {s[i].id : i \in DOMAIN s}

\* s without the items whose id is `id`, in the order of s
RECURSIVE Without(_, _)
Without(s, id) ==
    IF s = <<>> THEN <<>>
    ELSE IF Head(s).id = id THEN Without(Tail(s), id)
         ELSE <<Head(s)>> \o Without(Tail(s), id)

\* s without its done items, in the order of s
RECURSIVE NotDone(_)
NotDone(s) ==
    IF s = <<>> THEN <<>>
    ELSE IF Head(s).done THEN NotDone(Tail(s))
         ELSE <<Head(s)>> \o NotDone(Tail(s))

\* every slot holds an item and no id occurs twice
WellFormed(s) == NoDup(IdSeq(s)) /\ 0 \notin IdSet(s)

\* what one step does to the set of ids, by the call the step makes
C1_Step ==
    /\ WellFormed(todos')
    /\ last'.op = "create" => IdSet(todos') = IdSet(todos) \cup {nextId}
    /\ last'.op \in {"toggle", "update"} => IdSeq(todos') = IdSeq(todos)
    /\ last'.op = "remove" => IdSet(todos') = IdSet(todos) \ {last'.a}
    /\ last'.op = "reorder" => /\ IdSet(todos') = IdSet(todos)
                               /\ Len(todos') = Len(todos)
    /\ last'.op = "clearCompleted" => IdSet(todos') = IdSet(NotDone(todos))
    /\ last'.op = "Tick" => todos' = todos

\* C1: under create, toggle, update, remove, clearCompleted and reorder with
\* valid positions, the list holds every existing id exactly once: no step
\* duplicates an id or leaves an empty slot, ids leave the list only through
\* remove and clearCompleted, and reorder keeps the set of ids.
C1_IdsExactlyOnce == WellFormed(todos) /\ [][C1_Step]_vars

\* a reorder has moved the created item 3 to the front of a three-item list
C1_Witness ==
    /\ last.op = "reorder"
    /\ Len(todos) = 3
    /\ todos[1].id = 3

\* C2: reorder(from, to) with an index that is no position of the current
\* list (negative, or >= its length) is ignored: the list stays as it was.
C2_InvalidIgnored ==
    [][\A from, to \in (-1)..MaxId :
         (from \notin Positions \/ to \notin Positions) /\ reorder(from, to)
            => todos' = todos]_vars

\* C3: after remove(id) no item has that id and the other items are there in
\* their previous relative order; remove of an absent id changes nothing.
C3_Remove ==
    [][last'.op = "remove" =>
         /\ last'.a \notin IdSet(todos')
         /\ todos' = Without(todos, last'.a)
         /\ (last'.a \notin IdSet(todos) => todos' = todos)]_vars

\* remove(1) has acted on a list whose other items were 3 then 2
C3_Witness ==
    /\ last.op = "remove" /\ last.a = 1
    /\ IdSeq(todos) = <<3, 2>>

\* the outcome of toggle(id) at clock t1 followed by toggle(id) at clock t2
ToggleTwice(s, id, t1, t2) == toggleTodos(toggleTodos(s, id, t1), id, t2)

\* C4: toggle(id) twice in succession gives the item its original done flag
\* back (the first call having flipped it) and changes no other item and not
\* the order; toggle of an absent id changes no item.
C4_ToggleTwice ==
    \A id \in Ids, t2 \in now..MaxNow :
        LET s1 == toggleTodos(todos, id, now)
            s2 == ToggleTwice(todos, id, now, t2)
        IN  /\ IdSeq(s1) = IdSeq(todos) /\ IdSeq(s2) = IdSeq(todos)
            /\ \A i \in DOMAIN todos :
                 IF todos[i].id = id
                 THEN /\ s1[i].done = ~todos[i].done
                      /\ s2[i].done = todos[i].done
                 ELSE s1[i] = todos[i] /\ s2[i] = todos[i]
            /\ (id \notin IdSet(todos) => s1 = todos)

\* toggle(id) has just been called for the second time in a row on an item
\* of the list, which is back to not done
C4_Witness ==
    /\ last.op = "toggle" /\ last.rep
    /\ \E i \in DOMAIN todos :
         todos[i].id = last.a /\ ~todos[i].done

\* the item with the given id before and after a toggle step
ToggledItem(s, id) == s[CHOOSE i \in DOMAIN s : s[i].id = id]

\* C5 as claimed: every toggle of an existing item strictly increases its
\* updatedAt, however close together two calls are.
C5_StrictlyIncreases ==
    [][last'.op = "toggle" /\ last'.a \in IdSet(todos) =>
         ToggledItem(todos', last'.a).updatedAt
            > ToggledItem(todos, last'.a).updatedAt]_vars

\* C5 amended: a toggle of an existing item sets its updatedAt to the clock
\* reading of the call, which is never less than the previous updatedAt and
\* equal to it when both were written in the same millisecond.
C5_UpdatedAtIsNow ==
    [][last'.op = "toggle" /\ last'.a \in IdSet(todos) =>
         /\ ToggledItem(todos', last'.a).updatedAt = now
         /\ ToggledItem(todos', last'.a).updatedAt
               >= ToggledItem(todos, last'.a).updatedAt]_vars

\* a toggle has stamped an item with a clock reading later than the seed's
C5_Witness ==
    /\ last.op = "toggle"
    /\ \E i \in DOMAIN todos :
         todos[i].id = last.a /\ todos[i].updatedAt = now /\ now > 0

\* the calls of the to-do store
TodoCalls ==
    {"create", "toggle", "update", "remove", "reorder", "clearCompleted"}

\* the task-completion counters of the statistics
TaskCounters(st) == <<st.totalTasksCompleted, st.dailyStats, st.weeklyStats>>

\* C6: no call of the to-do store changes the productivity statistics;
\* totalTasksCompleted and the daily and weekly counters change only in a
\* trackTaskCompletion call.
C6_TodoCallsKeepStats ==
    [][ /\ last'.op \in TodoCalls => stats' = stats
        /\ TaskCounters(stats') # TaskCounters(stats)
             => last'.op = "trackTaskCompletion"
      ]_vars

\* an item was toggled to done after one completion had been tracked, and
\* the count is still one
C6_Witness ==
    /\ last.op = "toggle"
    /\ \E i \in DOMAIN todos : todos[i].id = last.a /\ todos[i].done
    /\ stats.totalTasksCompleted = 1
    /\ CountAt(stats.dailyStats, getDateKey(today)) = 1

-----------------------------------------------------------------------------
(* Properties of the playlist importer *)

IdsOf(batch) == [i \in DOMAIN batch |-> batch[i].id]

\* url is neither a URL carrying a non-empty list parameter nor a bare
\* identifier of the allowed characters and length
InvalidInput(url) ==
    /\ ~(ParsesAsURL(url) /\ ListParam(url) # "")
    /\ ~MatchesIdPattern(url)

\* C7: addPlaylistByUrl with an input that is neither a URL with a non-empty
\* list parameter nor a bare identifier returns the invalid-input error
\* result, sends no request, and leaves playlists and order unchanged (no
\* placeholder, no import in flight).
C7_InvalidInputRejected ==
    [][ (lastImp'.op = "addPlaylistByUrl" /\ InvalidInput(lastImp'.arg)) =>
           /\ lastImp'.ret = Ret(FALSE, "Invalid playlist URL or ID")
           /\ lastImp'.net = 0
           /\ UNCHANGED <<playlists, order, imports>> ]_vars

\* an invalid input was rejected while a playlist was in the store
C7_Witness ==
    /\ lastImp.op = "addPlaylistByUrl"
    /\ InvalidInput(lastImp.arg)
    /\ lastImp.ret.returned
    /\ order # <<>>

\* the playlist the call labelled by step imports, given the playlists
\* before the call; NullId if the call starts no import
ImportedBy(step, pls) ==
    IF step.op = "addPlaylistByUrl"
    THEN IF extractPlaylistId(step.arg) \in DOMAIN pls
         THEN NullId ELSE extractPlaylistId(step.arg)
    ELSE IF step.op = "refetchPlaylist" /\ step.arg \in DOMAIN pls
    THEN step.arg
    ELSE NullId

\* C8: without an API key, an import started by addPlaylistByUrl or
\* refetchPlaylist sends no request, does not throw (addPlaylistByUrl
\* resolves to its result), and is over within the call, the playlist's
\* error non-empty and its fetching flag false.
C8_NoKeyNoRequests ==
    [][ (apiKey = "" /\ ImportedBy(lastImp', playlists) # NullId) =>
           LET id == ImportedBy(lastImp', playlists) IN
           /\ lastImp'.net = 0
           /\ imports' = <<>>
           /\ lastImp'.op = "addPlaylistByUrl" => lastImp'.ret.returned
           /\ id \in DOMAIN playlists'
           /\ playlists'[id].error # NoError
           /\ playlists'[id].fetching = FALSE ]_vars

\* without a key, a playlist was added and then refetched
C8_Witness ==
    /\ apiKey = ""
    /\ lastImp.op = "refetchPlaylist"
    /\ lastImp.fin \in DOMAIN playlists
    /\ lastImp.net = 0

\* the step returns from an import whose every page request succeeded
ReturnsOk(step) ==
    /\ step.fin # ""
    /\ step.op = "metadataResponse" \/ (step.op = "pageResponse" /\ step.out = "ok")

\* C9: when an import whose pages carry pairwise distinct video ids returns
\* without error, the playlist's order is the concatenation of the pages in
\* arrival order and the keys of videos are exactly those ids.
C9_OrderIsConcatenation ==
    [][ \A i \in DOMAIN imports :
          LET imp == imports[i]
              got == imp.all \o BatchOf(imp.id, lastImp'.page, Len(imp.all))
          IN  ( /\ lastImp'.fin = imp.id
                /\ ReturnsOk(lastImp')
                /\ imp.id \in DOMAIN playlists'
                /\ NoDup(IdsOf(got)) ) =>
                  /\ playlists'[imp.id].order = IdsOf(got)
                  /\ DOMAIN playlists'[imp.id].videos = Range(IdsOf(got)) ]_vars

\* pages [v1, v2] then [v3] were imported
C9_Witness ==
    /\ ReturnsOk(lastImp)
    /\ lastImp.fin \in DOMAIN playlists
    /\ playlists[lastImp.fin].order = <<"v1", "v2", "v3">>
    /\ DOMAIN playlists[lastImp.fin].videos = {"v1", "v2", "v3"}

\* the step returns from an import whose last page request failed
ReturnsFailed(step) ==
    /\ step.fin # ""
    /\ step.op \in {"pageResponse", "textResponse"}
    /\ step.out \in {"notOk", "throws"}

\* C10: when the request for page k fails, by status or by throwing, after
\* pages 1..k-1 were merged, no further request is sent and the playlist
\* ends with order and videos holding exactly the items of pages 1..k-1,
\* error non-empty and fetching false.
C10_FailureKeepsMerged ==
    [][ \A i \in DOMAIN imports :
          LET imp == imports[i] IN
          ( /\ lastImp'.fin = imp.id
            /\ ReturnsFailed(lastImp')
            /\ imp.id \in DOMAIN playlists' ) =>
              /\ lastImp'.net = 0
              /\ imports' = RemoveAt(imports, i)
              /\ playlists'[imp.id].order = IdsOf(imp.all)
              /\ DOMAIN playlists'[imp.id].videos = Range(IdsOf(imp.all))
              /\ playlists'[imp.id].error # NoError
              /\ playlists'[imp.id].fetching = FALSE ]_vars

\* page 2 failed by status after page 1 = [v1, v2] was merged
C10_Witness ==
    /\ ReturnsFailed(lastImp)
    /\ lastImp.out = "notOk"
    /\ lastImp.fin \in DOMAIN playlists
    /\ playlists[lastImp.fin].order = <<"v1", "v2">>
    /\ playlists[lastImp.fin].error # NoError

\* C11: a refetchPlaylist that ends in an error leaves the videos merged
\* before the error intact: in particular, a refetch of a playlist that held
\* videos, whose first page request fails, does not leave the playlist with
\* empty videos and order.
C11_RefetchErrorKeepsVideos ==
    [][ \A i \in DOMAIN imports :
          LET imp == imports[i] IN
          ( /\ imp.kind = "refetch" /\ imp.had
            /\ lastImp'.fin = imp.id
            /\ ReturnsFailed(lastImp')
            /\ imp.id \in DOMAIN playlists' ) =>
              /\ playlists'[imp.id].order # <<>>
              /\ playlists'[imp.id].videos # EmptyObj ]_vars

\* C13: whenever a playlist is not fetching, its order is a permutation of
\* the keys of its videos: every key occurs in order exactly once.
C13_OrderIsPermutation ==
    \A id \in DOMAIN playlists :
        ~playlists[id].fetching =>
            /\ NoDup(playlists[id].order)
            /\ Range(playlists[id].order) = DOMAIN playlists[id].videos

\* the number of positions of seq that hold v
Count(seq, v) == Cardinality({i \in DOMAIN seq : seq[i] = v})

\* C14: merging a page into a playlist is idempotent on order: the ids of the
\* page are keys of videos with the page's content afterwards, and an id that
\* was already present keeps its one position in order (the order before the
\* merge is a prefix of the order after it, and no present id gains an entry).
C14_MergeIdempotentOnOrder ==
    [][ \A id \in DOMAIN playlists \cap DOMAIN playlists' :
          ( /\ lastImp'.op = "pageResponse" /\ lastImp'.out = "ok"
            /\ lastImp'.arg = id ) =>
              LET old == playlists[id]
                  new == playlists'[id]
                  page == lastImp'.page
              IN  /\ \A k \in DOMAIN page :
                        page[k] # MissingId =>
                            /\ page[k] \in DOMAIN new.videos
                            /\ ~new.videos[page[k]].done
                            /\ ~new.videos[page[k]].revisit
                  /\ Len(new.order) >= Len(old.order)
                  /\ SubSeq(new.order, 1, Len(old.order)) = old.order
                  /\ \A v \in DOMAIN old.videos :
                        Count(new.order, v) = Count(old.order, v) ]_vars

\* C15: addPlaylistByUrl and refetchPlaylist never throw or reject, and
\* every failure of an import (no API key, a failed metadata request, a
\* failed page request) is reported when the import ends: the playlist's
\* error is non-empty, and addPlaylistByUrl resolves to ok = false with that
\* error.
C15_FailuresAreReported ==
    [][ /\ lastImp'.op = "addPlaylistByUrl" /\ imports' = imports
             => lastImp'.ret.returned
        /\ ( /\ apiKey = ""
             /\ lastImp'.op \in {"addPlaylistByUrl", "refetchPlaylist"}
             /\ lastImp'.fin \in DOMAIN playlists' ) =>
               playlists'[lastImp'.fin].error # NoError
        /\ \A i \in DOMAIN imports :
             LET imp == imports[i]
                 failed == \/ ReturnsFailed(lastImp')
                           \/ imp.meta = "failed"
                           \/ /\ lastImp'.op = "metadataResponse"
                              /\ lastImp'.out # "ok"
             IN  ( /\ lastImp'.fin = imp.id
                   /\ imports' = RemoveAt(imports, i) ) =>
                     /\ imp.kind = "add" => lastImp'.ret.returned
                     /\ (failed /\ imp.kind = "add") =>
                            /\ ~lastImp'.ret.ok
                            /\ lastImp'.ret.error # NoError
                     /\ (failed /\ imp.id \in DOMAIN playlists') =>
                            playlists'[imp.id].error # NoError ]_vars

\* C12: in every reachable state, between the pages of imports in flight and
\* under any interleaving of addPlaylistByUrl, refetchPlaylist,
\* toggleVideoField, removePlaylist and the merges, the ids in a playlist's
\* order are exactly the keys of its videos.
C12_OrderAndVideosAgree ==
    \A id \in DOMAIN playlists :
        Range(playlists[id].order) = DOMAIN playlists[id].videos

\* a page is merged while a second import of the playlist is in flight and
\* the playlist already holds videos
C12_Witness ==
    /\ Len(imports) >= 2
    /\ lastImp.op = "pageResponse" /\ lastImp.out = "ok"
    /\ lastImp.arg \in DOMAIN playlists
    /\ Len(playlists[lastImp.arg].order) > Len(lastImp.page)
    /\ \E v \in DOMAIN playlists[lastImp.arg].videos :
         playlists[lastImp.arg].videos[v].done

-----------------------------------------------------------------------------
(* Properties of the Pomodoro countdown *)

\* the current session, unpaused
Running(t) ==
    /\ t.currentPomodoro # NoPomodoro
    /\ t.currentPomodoro.endTime = NoEndTime

\* the current session, paused
Paused(t) ==
    /\ t.currentPomodoro # NoPomodoro
    /\ t.currentPomodoro.endTime # NoEndTime

\* C16: at most one interval timer is live at any time, and it is the one
\* the store holds the handle of: no timer keeps ticking after a new session
\* was started, and no handle is overwritten without having been cleared.
C16_OneTimer ==
    /\ Cardinality(intervals) <= 1
    /\ intervals = IF timer.timerInterval = NoInterval
                   THEN {} ELSE {timer.timerInterval}

\* a session was started by a call during the break that followed a
\* completed session, and one timer is live
C16_Witness ==
    /\ last.op = "startPomodoro"
    /\ timer.isBreak
    /\ Len(timer.pomodoroSessions) = 1
    /\ Running(timer)
    /\ Cardinality(intervals) = 1

\* C17: resumePomodoro on a paused session shifts startTime forward by
\* exactly (resume time - pause time) and clears the pause marker, so that
\* the remaining time a tick computes right after the resume equals the
\* remaining time at the moment of the pause.
C17_ResumeExcludesPause ==
    [][ (last'.op = "resumePomodoro" /\ Paused(timer)) =>
          LET cur == timer.currentPomodoro
              new == timer'.currentPomodoro
          IN  /\ new.startTime = cur.startTime + (now - cur.endTime)
              /\ new.endTime = NoEndTime
              /\ new.duration = cur.duration
              /\ remainingAt(new, now) = remainingAt(cur, cur.endTime) ]_vars

\* a session that ran 10 s before it was paused was resumed 10 s later, for
\* the second time
C17_Witness ==
    /\ last.op = "resumePomodoro" /\ last.a = 10000
    /\ Running(timer)
    /\ timer.currentPomodoro.duration = 1
    /\ now = PageLoad + 30000
    /\ remainingAt(timer.currentPomodoro, now) = 50000

\* a 1-minute session paused at once is resumed after a gap of 10 s
PausedAtOnce10s ==
    /\ last'.op = "resumePomodoro" /\ Paused(timer)
    /\ timer.currentPomodoro.duration = 1
    /\ timer.currentPomodoro.endTime = timer.currentPomodoro.startTime
    /\ now - timer.currentPomodoro.endTime = 10000

\* C18 as claimed: a 1-minute session paused immediately and resumed after
\* a 10-second gap has its remaining time reduced by about 10 seconds: about
\* 50 seconds (within one second) remain once it is running again.
C18_GapReducesRemaining ==
    [][ PausedAtOnce10s =>
          /\ remainingAt(timer'.currentPomodoro, now) >= 49000
          /\ remainingAt(timer'.currentPomodoro, now) <= 51000 ]_vars

\* C18 amended: the 10-second gap is not counted: the full 60 seconds
\* remain when the session is running again, and a timer is live to count
\* them down.
C18_GapIsExcluded ==
    [][ PausedAtOnce10s =>
          /\ remainingAt(timer'.currentPomodoro, now) = 60000
          /\ timer'.currentPomodoro.endTime = NoEndTime
          /\ intervals' # {} ]_vars

\* the 1-minute session started and paused at page load was resumed 10 s
\* later
C18_Witness ==
    /\ last.op = "resumePomodoro" /\ last.a = 10000
    /\ Running(timer)
    /\ timer.currentPomodoro.duration = 1
    /\ timer.currentPomodoro.startTime = PageLoad + 10000
    /\ now = PageLoad + 10000

\* a tick of the live timer finds the running session at remaining = 0
TickAtZero ==
    /\ last'.op = "updateTimer"
    /\ Running(timer)
    /\ remainingAt(timer.currentPomodoro, now) = 0

\* C19: a tick that computes remaining = 0 for the running session, focus
\* or break, finalizes it exactly once: one entry with its duration and
\* completed = true is appended to pomodoroSessions, totalPomodoroSessions
\* grows by 1 and totalFocusTime by its duration, its timer is cleared (the
\* only timer live afterwards is the one of a newly started session), and it
\* is no longer the current session.
C19_FinalizedOnce ==
    [][ TickAtZero =>
          LET cur == timer.currentPomodoro IN
          /\ timer'.pomodoroSessions =
                Append(timer.pomodoroSessions,
                       [duration |-> cur.duration, completed |-> TRUE])
          /\ stats'.totalPomodoroSessions = stats.totalPomodoroSessions + 1
          /\ stats'.totalFocusTime = stats.totalFocusTime + cur.duration
          /\ timer'.currentPomodoro # cur
          /\ intervals' = IF timer'.currentPomodoro = NoPomodoro
                          THEN {} ELSE {timer'.timerInterval}
          /\ Cardinality(intervals') <= 1 ]_vars

\* a tick has finalized the 5-minute break that followed a 1-minute session
C19_Witness ==
    /\ last.op = "updateTimer"
    /\ timer.pomodoroSessions =
          << [duration |-> 1, completed |-> TRUE],
             [duration |-> 5, completed |-> TRUE] >>
    /\ stats.totalPomodoroSessions = 2
    /\ stats.totalFocusTime = 6

\* C20: when the tick finds a focus session (isBreak = false) at zero, a
\* break session is started in the same call with isBreak = true; when it
\* finds a break session at zero, no session is started and the controller
\* is idle: no current session, isBreak = false, no live timer.
C20_BreakThenIdle ==
    [][ TickAtZero =>
          IF ~timer.isBreak
          THEN /\ timer'.isBreak
               /\ Running(timer')
               /\ timer'.currentPomodoro.startTime = now
               /\ timer'.currentPomodoro.duration = BreakDuration(timer.sessionCount)
               /\ intervals' = {timer'.timerInterval}
          ELSE /\ timer'.currentPomodoro = NoPomodoro
               /\ ~timer'.isBreak
               /\ intervals' = {}
               /\ timer'.timerInterval = NoInterval ]_vars

\* a tick has just started the break after a focus session ran out
C20_Witness ==
    /\ last.op = "updateTimer"
    /\ timer.isBreak
    /\ Running(timer)
    /\ timer.currentPomodoro.startTime = now
    /\ timer.currentPomodoro.duration = 5
    /\ timer.sessionCount = 1

C22_CancelDiscards ==
    [][ last'.op = "cancelPomodoro" =>
          /\ timer'.currentPomodoro = NoPomodoro
          /\ timer'.timeLeft = 0
          /\ ~timer'.isBreak
          /\ intervals' = {} /\ timer'.timerInterval = NoInterval
          /\ timer'.pomodoroSessions = timer.pomodoroSessions
          /\ timer'.sessionCount = timer.sessionCount
          /\ stats'.totalPomodoroSessions = stats.totalPomodoroSessions
          /\ stats'.totalFocusTime = stats.totalFocusTime ]_vars

\* a paused break was cancelled after a session had been recorded
C22_Witness ==
    /\ last.op = "cancelPomodoro"
    /\ timer.currentPomodoro = NoPomodoro
    /\ Len(timer.pomodoroSessions) = 1
    /\ timer.sessionCount = 1
    /\ stats.totalPomodoroSessions = 1
    /\ intervals = {}

\* C23: after a tick of a running session at time `now`, timeLeft is
\* max(0, total duration - (now - startTime)) of the session that is then
\* current (0 when there is none): it depends on now, startTime and
\* duration only, not on the timeLeft the earlier ticks left behind; while
\* the session has time left the tick changes nothing else of it.
C23_TimeLeftFromClock ==
    [][ (last'.op = "updateTimer" /\ Running(timer)) =>
          /\ timer'.timeLeft =
                IF timer'.currentPomodoro = NoPomodoro THEN 0
                ELSE remainingAt(timer'.currentPomodoro, now)
          /\ remainingAt(timer.currentPomodoro, now) > 0 =>
                /\ timer'.currentPomodoro = timer.currentPomodoro
                /\ timer'.timeLeft = remainingAt(timer.currentPomodoro, now) ]_vars

\* the first tick after the start came 30 s late, the timer having shown
\* 60 s until then, and found 30 s left
C23_Witness ==
    /\ last.op = "updateTimer"
    /\ Running(timer)
    /\ timer.currentPomodoro.startTime = PageLoad
    /\ now = PageLoad + 30000
    /\ timer.timeLeft = 30000

\* C26: for positions from and to of the current list, reorder(from, to)
\* yields the list that has the element previously at index from at index to
\* and the other elements in their previous relative order; reorder(i, i)
\* leaves the list as it was.
C26_ReorderMoves ==
    [][\A from, to \in Positions :
         reorder(from, to) =>
            /\ Len(todos') = Len(todos)
            /\ todos'[to + 1] = todos[from + 1]
            /\ RemoveAt(todos', to + 1) = RemoveAt(todos, from + 1)
            /\ from = to => todos' = todos]_vars

\* the first of three items was dragged to the end
C26_Witness ==
    /\ last.op = "reorder"
    /\ IdSeq(todos) = <<2, 3, 1>>

\* C27: an import that ends without error gives the playlist the title
\* the metadata request returned, whenever that request succeeded with a
\* title: whether its response came before the first page, between two
\* pages (the title is then held until the last page is merged), or after
\* the last page (the call then waits for it).
C27_TitleFromMetadata ==
    [][ \A i \in DOMAIN imports :
          LET id == imports[i].id IN
          /\ \A t \in Titles \ {NoTitle} :
                ( /\ metadataResponse(i, "ok", t)
                  /\ imports[i].pc = "title"
                  /\ id \in DOMAIN playlists ) =>
                    /\ lastImp'.fin = id
                    /\ playlists'[id].title = t
                    /\ ~playlists'[id].fetching
          /\ ( /\ lastImp'.op = "pageResponse" /\ lastImp'.fin = id
               /\ ReturnsOk(lastImp')
               /\ imports[i].meta = "done" /\ imports[i].title # NoTitle
               /\ id \in DOMAIN playlists ) =>
                    playlists'[id].title = imports[i].title ]_vars

\* the title came after the last page of a two-page import had been merged
C27_Witness ==
    /\ lastImp.op = "metadataResponse" /\ lastImp.fin = "PLabcdefghij"
    /\ "PLabcdefghij" \in DOMAIN playlists
    /\ playlists["PLabcdefghij"].title = "Course"
    /\ playlists["PLabcdefghij"].order = <<"v1", "v2", "v3">>

\* the title came between the two pages of an import, or before the first
C27_WitnessEarly ==
    /\ lastImp.op = "pageResponse" /\ lastImp.fin = "PLabcdefghij"
    /\ "PLabcdefghij" \in DOMAIN playlists
    /\ playlists["PLabcdefghij"].title = "Course"
    /\ playlists["PLabcdefghij"].order = <<"v1", "v2", "v3">>

\* every playlist in the store has been finalized
AllFinalized ==
    \A id \in DOMAIN playlists :
        ~playlists[id].fetching /\ playlists[id].fetchedAt # NoTime

\* C28: when every request eventually resolves or fails and the remote
\* eventually serves a page without a continuation token, every import
\* eventually returns, and the playlists then in the store have
\* fetching = false and fetchedAt set, whether the import succeeded or not.
C28_EventuallyFinalized ==
    (imports # <<>>) ~> (imports = <<>> /\ AllFinalized)

\* an import that failed on a page request has returned: the playlist is
\* finalized with the error
C28_Witness ==
    /\ lastImp.op = "textResponse" /\ lastImp.fin = "PLabcdefghij"
    /\ imports = <<>>
    /\ "PLabcdefghij" \in DOMAIN playlists
    /\ ~playlists["PLabcdefghij"].fetching
    /\ playlists["PLabcdefghij"].fetchedAt # NoTime
    /\ playlists["PLabcdefghij"].error # NoError

\* C29: a response of an import (a page that is merged, the final set)
\* changes only the entries of the videos the page carries: every other
\* video of the playlist stays, with the done and revisit flags a toggle
\* gave it while the import was in flight.
C29_TogglesSurviveMerges ==
    [][ \A id \in DOMAIN playlists \cap DOMAIN playlists' :
          ( /\ lastImp'.op \in {"pageResponse", "metadataResponse", "textResponse"}
            /\ lastImp'.arg = id ) =>
              \A v \in DOMAIN playlists[id].videos :
                  ( /\ v \notin Range(lastImp'.page)
                    /\ v \in VideoIds \/ MissingId \notin Range(lastImp'.page) ) =>
                      /\ v \in DOMAIN playlists'[id].videos
                      /\ playlists'[id].videos[v] = playlists[id].videos[v] ]_vars

\* the last page, carrying v3, was merged and the import finalized; v1, of
\* the first page, had been marked done in between and still is
C29_Witness ==
    /\ lastImp.op = "pageResponse" /\ lastImp.fin = "PLabcdefghij"
    /\ lastImp.page = <<"v3">>
    /\ "PLabcdefghij" \in DOMAIN playlists
    /\ playlists["PLabcdefghij"].order = <<"v1", "v2", "v3">>
    /\ playlists["PLabcdefghij"].videos["v1"].done
    /\ ~playlists["PLabcdefghij"].videos["v3"].done

-----------------------------------------------------------------------------
(* Properties of the DSA sheet's store *)

\* the stored entry is there and is the JSON of a question list
WellFormedItem(item) ==
    /\ item.present
    /\ ~Parse(item.text).threw
    /\ Parse(item.text).value.kind = "array"

\* C24 as claimed: after the first getInstance the store's questions are
\* the stored question list when the stored entry is present, readable and
\* well-formed, and the empty list otherwise: an absent, unparseable or
\* malformed (parseable but not a question list) entry is discarded; and
\* loading does not throw.
C24_MalformedDiscarded ==
    [][ lastDsa'.op = "getInstance" =>
          /\ ~lastDsa'.threw
          /\ dsa'.questions =
                IF lastDsa'.read = "ok" /\ WellFormedItem(storage)
                THEN Parse(storage.text).value
                ELSE JsArray(<<>>) ]_vars

\* C25: a mutator whose write to localStorage fails still applies its
\* change in memory and notifies the listeners, and throws nothing; the
\* stored entry stays as it was.
C25_WriteFailureSwallowed ==
    [][ lastDsa'.write = "failed" =>
          LET old == dsa.questions.items
              new == dsa'.questions.items
              id  == lastDsa'.id
          IN  /\ ~lastDsa'.threw
              /\ lastDsa'.notified
              /\ storage' = storage
              /\ dsa'.questions.kind = "array"
              /\ lastDsa'.op = "addQuestion" =>
                    /\ Len(new) = Len(old) + 1
                    /\ SubSeq(new, 1, Len(old)) = old
                    /\ new[Len(new)].id = now
              /\ lastDsa'.op = "updateQuestion" =>
                    /\ Len(new) = Len(old)
                    /\ \A i \in DOMAIN old :
                          /\ new[i].id = old[i].id
                          /\ old[i].id # id => new[i] = old[i]
              /\ lastDsa'.op = "deleteQuestion" =>
                    new = SelectSeq(old, LAMBDA q : q.id # id) ]_vars

\* a question was added in memory although the write failed: the stored
\* entry still holds the one question that was loaded
C25_Witness ==
    /\ lastDsa.op = "addQuestion" /\ lastDsa.write = "failed"
    /\ lastDsa.notified
    /\ Len(dsa.questions.items) = 2
    /\ storage = Item(Stringify(JsArray(<<[id |-> 0, done |-> TRUE]>>)))

-----------------------------------------------------------------------------
(* Properties of the tracker page's refresh *)

\* C30 as claimed: once the deferred restore step of a refresh has run,
\* every video that had done (or revisit) set when the refresh was clicked
\* and is in the playlist has that flag set, whatever toggles and further
\* refresh clicks were interleaved with the refresh.
C30_RefreshRestoresProgress ==
    [][ lastImp'.op = "restoreProgress" =>
          \A p \in Head(tracker.timeouts) :
              ( /\ TrackedId \in DOMAIN playlists'
                /\ p[1] \in DOMAIN playlists'[TrackedId].videos ) =>
                  playlists'[TrackedId].videos[p[1]][p[2]] ]_vars


-----------------------------------------------------------------------------
(* Properties of the countdown's timer and of its session count *)

\* C31: while the page stays loaded, an interval timer is live exactly when
\* there is a current session that is not paused: start and resume acquire
\* one; pause, completion, cancel and replacement release it.
C31_TimerIffRunning == (intervals # {}) <=> Running(timer)

\* a break that a tick had started was paused, and no timer is live
C31_Witness ==
    /\ last.op = "pausePomodoro"
    /\ Paused(timer)
    /\ timer.isBreak
    /\ Len(timer.pomodoroSessions) = 1
    /\ intervals = {}

\* the calls that are no countdown reaching zero
QuietCalls == {"pausePomodoro", "resumePomodoro", "cancelPomodoro"}

C32_RunningCompletes ==
    \A k \in 0..MaxSessions :
        (Running(timer) /\ Len(timer.pomodoroSessions) = k)
            ~> (Len(timer.pomodoroSessions) > k \/ ~Running(timer))

\* a 1-minute session and the 5-minute break after it have both run out and
\* were completed by ticks
C32_Witness ==
    /\ last.op = "updateTimer"
    /\ timer.currentPomodoro = NoPomodoro
    /\ timer.pomodoroSessions =
          << [duration |-> 1, completed |-> TRUE],
             [duration |-> 5, completed |-> TRUE] >>
    /\ now >= PageLoad + 6 * 60 * 1000
    /\ intervals = {}

-----------------------------------------------------------------------------
(* Properties of the statistics over the calendar *)

\* the number of consecutive days ending at day d with a tracked completion
RECURSIVE RunEndingAt(_, _)
RunEndingAt(daily, d) ==
    IF CountAt(daily, d) > 0 THEN 1 + RunEndingAt(daily, d - 1) ELSE 0

WeekOf(d) == d - getDay(d)

\* C34 as claimed: two days on which completions were tracked have the same
\* week key only if they lie in the same calendar week, so weeklyStats[key]
\* counts the completions of one week only: days in different weeks or in
\* different months of a year never share a key.
C34_WeekKeyIsOneWeek ==
    \A d1, d2 \in DOMAIN stats.dailyStats :
        getWeekKey(d1) = getWeekKey(d2) =>
            WeekOf(d1) = WeekOf(d2)

-----------------------------------------------------------------------------
(* Properties of imports that overlap with removals and other imports *)

\* the steps in which a response is handled: a merge, a final set, or both
ResponseSteps == {"metadataResponse", "pageResponse", "textResponse"}

\* C35: once removePlaylist(id) has run while an import of id is in flight,
\* no later merge or final set of that import re-creates the entry or puts
\* id back in order: a step that handles a response leaves the set of
\* playlists and order as they are.
C35_ResponsesCreateNothing ==
    [][ lastImp'.op \in ResponseSteps =>
          /\ DOMAIN playlists' = DOMAIN playlists
          /\ order' = order ]_vars

\* the last page of an import arrived, and the import returned, after its
\* playlist had been removed: the store is empty
C35_Witness ==
    /\ lastImp.op = "pageResponse"
    /\ lastImp.page # <<>>
    /\ lastImp.fin \in PlaylistIds
    /\ lastImp.fin \notin DOMAIN playlists
    /\ order = <<>>
    /\ imports = <<>>

\* C36 as claimed: whenever an import is in flight for a playlist that is in
\* the store, the playlist's fetching flag is true, also when a refetch was
\* started during an earlier import and when the playlist was removed and
\* added again during an import.
C36_FetchingWhileInFlight ==
    \A i \in DOMAIN imports :
        imports[i].id \in DOMAIN playlists => playlists[imports[i].id].fetching

\* C37 as claimed: once a call of addPlaylistByUrl has made its final set,
\* the playlist's title is not the placeholder 'Loading...': it is the
\* fetched title or the fallback 'Untitled Playlist'.
C37_TitleNotPlaceholder ==
    [][ ( /\ lastImp'.fin \in PlaylistIds
          /\ lastImp'.ret.returned
          /\ lastImp'.fin \in DOMAIN playlists' ) =>
            /\ playlists'[lastImp'.fin].title # "Loading..."
            /\ playlists'[lastImp'.fin].title
                  \in (Titles \ {NoTitle}) \cup {"Untitled Playlist"} ]_vars

-----------------------------------------------------------------------------
(* Properties of the countdown across page loads *)

\* C38 as claimed: a running session survives a restart: when the persisted
\* state has been rehydrated with a current session that is not paused, a
\* timer is live again to recompute the countdown and to complete the
\* session without any user action.
C38_TimerLiveAfterReload ==
    (last.op = "reload" /\ Running(timer)) => intervals # {}

-----------------------------------------------------------------------------
(* Properties of the PomodoroTimer component *)

\* C40 as claimed: the break that is started one second after a focus
\* session has completed never replaces a session the user started in that
\* second (a timer that is not idle is left as it is), and never overrides a
\* Stop pressed in that second (the timer stays idle).
C40_AutoBreakYields ==
    [][ panel'.step = "autoBreak" =>
          /\ panel.timerState # "idle" =>
                /\ panel'.currentSession = panel.currentSession
                /\ panel'.timerState = panel.timerState
                /\ panel'.timeLeft = panel.timeLeft
          /\ panel.stopped => panel'.timerState = "idle" ]_vars

=============================================================================
